---------------------------- MODULE Spec2Model ----------------------------
(***************************************************************************)
(* Model of the match-scoring engine of challenge/match_evaluator.py       *)
(* (class EnhancedTenantMatchEvaluator).                                   *)
(*                                                                         *)
(* Python floats are IEEE-754 binary64 values.  The engine divides, adds   *)
(* and multiplies them, and compares the results with == and >=, so the    *)
(* model carries binary64 arithmetic with round-to-nearest-even: a float   *)
(* is a record [m, e] standing for m * 2^e, with m a 53-bit natural kept   *)
(* as a little-endian sequence of 15-bit limbs (TLC integers are 32 bits). *)
(***************************************************************************)
EXTENDS Integers, Sequences, FiniteSets, TLC

\* The element of a one-element set.  Value({e : x \in {a}}) is e with x
\* naming the value of a: Python evaluates a once and binds the result, and
\* so does this; an operator whose parameter p_ is bound this way to p
\* evaluates its argument once, as a Python call does.
Value(S) == CHOOSE x \in S : TRUE

(***************************************************************************)
(* Natural numbers of any size: little-endian limbs, no leading zero limb. *)
(***************************************************************************)
LimbBits == 16 - 1   \* the product of two limbs fits in 31 bits
Base == 2 ^ LimbBits

RECURSIVE BStrip(_)
BStrip(a_) ==
    Value({ IF a = <<>> THEN <<>>
            ELSE IF a[Len(a)] = 0 THEN BStrip(SubSeq(a, 1, Len(a) - 1))
            ELSE a : a \in {a_} })

BFromInt(n_) ==
    Value({ IF n = 0 THEN <<>>
            ELSE IF n < Base THEN <<n>>
            ELSE IF n < Base * Base THEN <<n % Base, n \div Base>>
            ELSE <<n % Base, (n \div Base) % Base, n \div (Base * Base)>> : n \in {n_} })

\* the limbs of a + b + c from limb i on
RECURSIVE BAddC(_, _, _, _)
BAddC(a, b, i, c_) ==
    IF i > Len(a) /\ i > Len(b)
    THEN (IF c_ = 0 THEN <<>> ELSE <<c_>>)
    ELSE Value({ <<t % Base>> \o BAddC(a, b, i + 1, t \div Base) :
                 t \in {(IF i <= Len(a) THEN a[i] ELSE 0)
                        + (IF i <= Len(b) THEN b[i] ELSE 0) + c_} })

BAdd(a_, b_) == Value({ BAddC(a, b, 1, 0) : a \in {a_}, b \in {b_} })

\* the limbs of a - b - c from limb i on
RECURSIVE BSubC(_, _, _, _)
BSubC(a, b, i, c_) ==
    IF i > Len(a) THEN <<>>
    ELSE Value({ IF t < 0 THEN <<t + Base>> \o BSubC(a, b, i + 1, 1)
                 ELSE <<t>> \o BSubC(a, b, i + 1, 0) :
                 t \in {a[i] - (IF i <= Len(b) THEN b[i] ELSE 0) - c_} })

\* a - b, for a >= b
BSub(a_, b_) == Value({ BStrip(BSubC(a, b, 1, 0)) : a \in {a_}, b \in {b_} })

RECURSIVE BCmpAt(_, _, _)
BCmpAt(a, b, i) ==
    IF i = 0 THEN 0
    ELSE IF a[i] < b[i] THEN -1
    ELSE IF a[i] > b[i] THEN 1
    ELSE BCmpAt(a, b, i - 1)

\* -1, 0, 1 as a < b, a = b, a > b
BCmp(a_, b_) ==
    Value({ IF Len(a) < Len(b) THEN -1
            ELSE IF Len(a) > Len(b) THEN 1
            ELSE BCmpAt(a, b, Len(a)) : a \in {a_}, b \in {b_} })

\* the limbs of a * s + c from limb i on
RECURSIVE BMulSmallC(_, _, _, _)
BMulSmallC(a, s, i, c_) ==
    IF i > Len(a) THEN (IF c_ = 0 THEN <<>> ELSE <<c_>>)
    ELSE Value({ <<t % Base>> \o BMulSmallC(a, s, i + 1, t \div Base) :
                 t \in {a[i] * s + c_} })

\* a * s, for 0 <= s < Base
BMulSmall(a_, s_) ==
    Value({ IF s = 0 \/ a = <<>> THEN <<>> ELSE BMulSmallC(a, s, 1, 0) :
            a \in {a_}, s \in {s_} })

BShiftLimbs(a_, q) ==
    Value({ IF a = <<>> THEN <<>> ELSE [i \in 1..q |-> 0] \o a : a \in {a_} })

RECURSIVE BMulAt(_, _, _)
BMulAt(a, b, i) ==
    IF i > Len(a) THEN <<>>
    ELSE BAdd(BShiftLimbs(BMulSmall(b, a[i]), i - 1), BMulAt(a, b, i + 1))

BMul(a_, b_) == Value({ BMulAt(a, b, 1) : a \in {a_}, b \in {b_} })

\* a * 2^n
BShl(a, n_) ==
    Value({ BShiftLimbs(BMulSmall(a, 2 ^ (n % LimbBits)), n \div LimbBits) : n \in {n_} })

\* floor(a / 2^n) for n = q * LimbBits + r
ShrLimbs(a, q, d, u) ==
    IF q >= Len(a) THEN <<>>
    ELSE BStrip([i \in 1..(Len(a) - q) |->
                    (a[i + q] \div d)
                    + (IF i + q < Len(a) THEN (a[i + q + 1] % d) * u ELSE 0)])

\* floor(a / 2^n)
BShr(a_, n_) ==
    Value({ Value({ ShrLimbs(a, n \div LimbBits, d, u) :
                    d \in {2 ^ (n % LimbBits)}, u \in {2 ^ (LimbBits - (n % LimbBits))} }) :
            a \in {a_}, n \in {n_} })

RECURSIVE BitLenSmall(_)
BitLenSmall(n_) ==
    Value({ IF n = 0 THEN 0 ELSE 1 + BitLenSmall(n \div 2) : n \in {n_} })

BitLen(a_) ==
    Value({ IF a = <<>> THEN 0 ELSE LimbBits * (Len(a) - 1) + BitLenSmall(a[Len(a)]) :
            a \in {a_} })

\* bit k (from 0) of a
BBit(a_, k_) ==
    Value({ IF k \div LimbBits >= Len(a) THEN 0
            ELSE (a[(k \div LimbBits) + 1] \div (2 ^ (k % LimbBits))) % 2 :
            a \in {a_}, k \in {k_} })

\* some bit below bit k of a is set
BLowBits(a_, k_) ==
    Value({ \/ \E i \in 1..Len(a) : i <= k \div LimbBits /\ a[i] # 0
            \/ /\ k \div LimbBits < Len(a)
               /\ a[(k \div LimbBits) + 1] % (2 ^ (k % LimbBits)) # 0 :
            a \in {a_}, k \in {k_} })

(***************************************************************************)
(* binary64 arithmetic on non-negative finite values, round-to-nearest,    *)
(* ties to even.  The engine's values lie in [0, 2], far from overflow and *)
(* from the subnormal range.                                               *)
(***************************************************************************)
Precision == 52 + 1   \* 52 stored bits and the leading one

FZero == [m |-> <<>>, e |-> 0]

\* FRound for n longer than Precision bits: s bits are dropped, kept stay
RoundKept(n, e, sticky, s, kept) ==
    Value({ IF BitLen(m) > Precision
            THEN [m |-> BShr(m, 1), e |-> e + s + 1]
            ELSE [m |-> m, e |-> e + s] :
            m \in {IF BBit(n, s - 1) = 1
                      /\ (sticky \/ BLowBits(n, s - 1) \/ BBit(kept, 0) = 1)
                   THEN BAdd(kept, <<1>>) ELSE kept} })

\* FRound for a non-zero n of L bits
RoundBits(n, e, sticky, L) ==
    IF L <= Precision
    THEN [m |-> BShl(n, Precision - L), e |-> e - (Precision - L)]
    ELSE Value({ RoundKept(n, e, sticky, L - Precision, kept) :
                 kept \in {BShr(n, L - Precision)} })

\* the float nearest to (n + f) * 2^e, where 0 <= f < 1 and f > 0 iff sticky
FRound(n_, e_, sticky_) ==
    Value({ IF n = <<>> THEN FZero
            ELSE Value({ RoundBits(n, e, sticky, L) : L \in {BitLen(n)} }) :
            n \in {n_}, e \in {e_}, sticky \in {sticky_} })

\* float(n) for an int n >= 0
FInt(n) == FRound(BFromInt(n), 0, FALSE)

FIsZero(x) == x.m = <<>>

\* -1, 0, 1 as x < y, x = y, x > y
FCmp(x_, y_) ==
    Value({ IF FIsZero(x) THEN (IF FIsZero(y) THEN 0 ELSE -1)
            ELSE IF FIsZero(y) THEN 1
            ELSE IF x.e < y.e THEN -1
            ELSE IF x.e > y.e THEN 1
            ELSE BCmp(x.m, y.m) : x \in {x_}, y \in {y_} })

FGe(x, y) == FCmp(x, y) >= 0
FGt(x, y) == FCmp(x, y) > 0
FLe(x, y) == FCmp(x, y) <= 0
FLt(x, y) == FCmp(x, y) < 0

\* hi + lo, for hi.e >= lo.e and neither zero
AddAligned(hi, lo) == FRound(BAdd(BShl(hi.m, hi.e - lo.e), lo.m), lo.e, FALSE)

\* x + y
FAdd(x_, y_) ==
    Value({ IF FIsZero(x) THEN y
            ELSE IF FIsZero(y) THEN x
            ELSE IF x.e >= y.e THEN AddAligned(x, y) ELSE AddAligned(y, x) :
            x \in {x_}, y \in {y_} })

\* x - y, for x >= y
FSub(x_, y_) ==
    Value({ IF FIsZero(y) THEN x
            ELSE FRound(BSub(BShl(x.m, x.e - y.e), y.m), y.e, FALSE) :
            x \in {x_}, y \in {y_} })

\* x * y
FMul(x_, y_) ==
    Value({ IF FIsZero(x) \/ FIsZero(y) THEN FZero
            ELSE FRound(BMul(x.m, y.m), x.e + y.e, FALSE) : x \in {x_}, y \in {y_} })

\* Long division by limbs.  The divisor d has four limbs with the top one at
\* least Base / 2, and r < d * Base: the quotient digit is estimated from the
\* top limbs (never too small, at most 2 too large) and corrected downwards.
RECURSIVE BDivFix(_, _, _)
BDivFix(r, d, g_) ==
    Value({ IF BCmp(BMulSmall(d, g), r) > 0 THEN BDivFix(r, d, g - 1) ELSE g :
            g \in {g_} })

BDivDigit(r, d) ==
    Value({ BDivFix(r, d, IF est > Base - 1 THEN Base - 1 ELSE est) :
            est \in {((IF Len(r) >= 5 THEN r[5] ELSE 0) * Base
                      + (IF Len(r) >= 4 THEN r[4] ELSE 0)) \div d[4]} })

\* one more quotient limb: q, r are the quotient so far and the shifted remainder
BDivLimb(q, r, d) ==
    Value({ [q |-> BStrip(<<g>> \o q), r |-> BSub(r, BMulSmall(d, g))] :
            g \in {IF r = <<>> THEN 0 ELSE BDivDigit(r, d)} })

\* one more quotient limb: s.q, s.r are the quotient and remainder so far
BDivStep(s_, d) ==
    Value({ Value({ BDivLimb(s.q, r, d) : r \in {BShiftLimbs(s.r, 1)} }) : s \in {s_} })

\* n / d for the scaled mantissas, rounded, with exponent e
DivScaled(n, d, e) ==
    Value({ FRound(s4.q, e, s4.r # <<>>) :
            s4 \in {BDivStep(BDivStep(BDivStep(BDivStep(
                        IF BCmp(n, d) >= 0
                        THEN [q |-> <<1>>, r |-> BSub(n, d)]
                        ELSE [q |-> <<>>, r |-> n], d), d), d), d)} })

\* x / y, for y > 0: both mantissas are scaled to four full limbs, the
\* quotient gets four limbs after its leading bit, and a remainder left over
\* is the sticky bit of the rounding
FDiv(x_, y_) ==
    Value({ IF FIsZero(x) THEN FZero
            ELSE Value({ DivScaled(n, d, x.e - y.e - 4 * LimbBits) :
                         n \in {BShl(x.m, 4 * LimbBits - Precision)},
                         d \in {BShl(y.m, 4 * LimbBits - Precision)} }) :
            x \in {x_}, y \in {y_} })

\* int / int (Python true division of two small ints)
FRatio(a, b) == FDiv(FInt(a), FInt(b))

FMax(x_, y_) == Value({ IF FGe(x, y) THEN x ELSE y : x \in {x_}, y \in {y_} })
(***************************************************************************)
(* Python values.  A str is a sequence of one-character strings, so that   *)
(* normalisation, splitting, parsing and formatting work on characters.    *)
(***************************************************************************)
None == [t |-> "none"]
Str(s) == [t |-> "str", v |-> s]
PyInt(n) == [t |-> "int", v |-> n]
Float(x) == [t |-> "float", v |-> x]
\* datetime.datetime(y, m, d, h): h is the time of day, 0 when parsed from a string
DateTime(y, m, d, h) == [t |-> "datetime", y |-> y, m |-> m, d |-> d, h |-> h]
\* datetime.date(y, m, d)
Date(y, m, d) == [t |-> "date", y |-> y, m |-> m, d |-> d]
PySet(S) == [t |-> "set", v |-> S]
\* a dict is a function from its keys; a list is a sequence
Dict(f) == [t |-> "dict", v |-> f]
List(q) == [t |-> "list", v |-> q]
\* a str the engine only passes along (a category, a label, a message)
Text(s) == [t |-> "text", v |-> s]
\* an exception leaving the call
Raise(exc) == [t |-> "raise", v |-> exc]
IsRaise(v) == v.t = "raise"

\* bool(v)
Truthy(v_) ==
    Value({ CASE v.t = "none" -> FALSE
              [] v.t = "str"  -> v.v # <<>>
              [] v.t = "int"  -> v.v # 0
              [] v.t = "set"  -> v.v # {}
              [] v.t = "list" -> v.v # <<>>
              [] v.t = "dict" -> DOMAIN v.v # {}
              [] OTHER        -> TRUE : v \in {v_} })

\* v1 == v2 on Python values (a date never equals a datetime)
PyEq(v1_, v2_) == Value({ v1.t = v2.t /\ v1 = v2 : v1 \in {v1_}, v2 \in {v2_} })

Uppers == <<"A", "B", "C", "D", "E", "F", "G", "H", "I", "J", "K", "L", "M",
            "N", "O", "P", "Q", "R", "S", "T", "U", "V", "W", "X", "Y", "Z">>
Lowers == <<"a", "b", "c", "d", "e", "f", "g", "h", "i", "j", "k", "l", "m",
            "n", "o", "p", "q", "r", "s", "t", "u", "v", "w", "x", "y", "z">>
DigitChars == <<"0", "1", "2", "3", "4", "5", "6", "7", "8", "9">>
UpperSet == {Uppers[i] : i \in 1..Len(Uppers)}
LowerSet == {Lowers[i] : i \in 1..Len(Lowers)}
DigitSet == {DigitChars[i] : i \in 1..Len(DigitChars)}
ToLower == [c \in UpperSet |-> Lowers[CHOOSE i \in 1..Len(Uppers) : Uppers[i] = c]]
DigitVal == [c \in DigitSet |-> (CHOOSE i \in 1..Len(DigitChars) : DigitChars[i] = c) - 1]

\* \w of the re module: letters, digits and the underscore
IsWordChar(c) == c \in UpperSet \/ c \in LowerSet \/ c \in DigitSet \/ c = "_"
\* \s of the re module
IsSpace(c) == c \in {" ", "\t", "\n"}

\* str.lower()
lower(s_) ==
    Value({ [i \in 1..Len(s) |-> IF s[i] \in UpperSet THEN ToLower[s[i]] ELSE s[i]] :
            s \in {s_} })

\* re.sub(r'[^\w\s]', '', s)
IsKept(c) == IsWordChar(c) \/ IsSpace(c)
re_sub_non_word(s) == SelectSeq(s, IsKept)

\* str.strip()
RECURSIVE lstrip(_)
lstrip(s_) ==
    Value({ IF s # <<>> /\ IsSpace(s[1]) THEN lstrip(Tail(s)) ELSE s : s \in {s_} })
RECURSIVE rstrip(_)
rstrip(s_) ==
    Value({ IF s # <<>> /\ IsSpace(s[Len(s)]) THEN rstrip(SubSeq(s, 1, Len(s) - 1)) ELSE s :
            s \in {s_} })
strip(s) == rstrip(lstrip(s))

\* str.split(): the maximal runs of non-space characters, in order
RECURSIVE SplitFrom(_, _, _)
SplitFrom(s, i_, cur_) ==
    Value({ IF i > Len(s) THEN (IF cur = <<>> THEN <<>> ELSE <<cur>>)
            ELSE IF IsSpace(s[i])
            THEN (IF cur = <<>> THEN <<>> ELSE <<cur>>) \o SplitFrom(s, i + 1, <<>>)
            ELSE SplitFrom(s, i + 1, Append(cur, s[i])) :
            i \in {i_}, cur \in {cur_} })
split(s_) == Value({ SplitFrom(s, 1, <<>>) : s \in {s_} })

\* set(s.split())
Range(q_) == Value({ {q[i] : i \in 1..Len(q)} : q \in {q_} })
Tokens(s) == Range(split(s))

\* _normalize_name(name)
_normalize_name(name_) ==
    Value({ IF ~Truthy(name) THEN Str(<<>>)
            ELSE IF name.t # "str" THEN Raise("TypeError")     \* re.sub on a non-string
            ELSE Str(lower(re_sub_non_word(name.v))) : name \in {name_} })

(***************************************************************************)
(* Dates: datetime.strptime and strftime.                                  *)
(***************************************************************************)
Min2(a_, b_) == Value({ IF a <= b THEN a ELSE b : a \in {a_}, b \in {b_} })
Max2(a_, b_) == Value({ IF a >= b THEN a ELSE b : a \in {a_}, b \in {b_} })
SetMin(S_) == Value({ CHOOSE x \in S : \A y \in S : x <= y : S \in {S_} })
SetMax(S_) == Value({ CHOOSE x \in S : \A y \in S : x >= y : S \in {S_} })

\* the fields of s between occurrences of the character sep
RECURSIVE SplitOnFrom(_, _, _, _)
SplitOnFrom(s, sep, i_, cur_) ==
    Value({ IF i > Len(s) THEN <<cur>>
            ELSE IF s[i] = sep THEN <<cur>> \o SplitOnFrom(s, sep, i + 1, <<>>)
            ELSE SplitOnFrom(s, sep, i + 1, Append(cur, s[i])) :
            i \in {i_}, cur \in {cur_} })
SplitOn(s_, sep_) == Value({ SplitOnFrom(s, sep, 1, <<>>) : s \in {s_}, sep \in {sep_} })

AllDigits(f_) == Value({ \A i \in 1..Len(f) : f[i] \in DigitSet : f \in {f_} })

RECURSIVE NumAt(_, _)
NumAt(f, n_) ==
    Value({ IF n = 0 THEN 0 ELSE 10 * NumAt(f, n - 1) + DigitVal[f[n]] : n \in {n_} })
\* int(f), for a string of digits
Num(f_) == Value({ NumAt(f, Len(f)) : f \in {f_} })

IsLeap(y) == (y % 4 = 0 /\ y % 100 # 0) \/ y % 400 = 0
DaysInMonth(y, m) ==
    IF m = 2 THEN (IF IsLeap(y) THEN 29 ELSE 28)
    ELSE IF m \in {4, 6, 9, 11} THEN 30
    ELSE 31

\* The formats tried on a dob string, in order: '%Y-%m-%d', '%d/%m/%Y',
\* '%m/%d/%Y', '%d-%m-%Y'.  A format is its separator and directive order.
DateFormats ==
    << [sep |-> "-", ord |-> <<"Y", "m", "d">>],
       [sep |-> "/", ord |-> <<"d", "m", "Y">>],
       [sep |-> "/", ord |-> <<"m", "d", "Y">>],
       [sep |-> "-", ord |-> <<"d", "m", "Y">>] >>

\* a field matches its directive: %Y is four digits, %m is 1..12 and %d is
\* 1..31 in one or two digits
FieldOk(f_, dir) ==
    Value({ /\ AllDigits(f)
            /\ IF dir = "Y" THEN Len(f) = 4
               ELSE /\ Len(f) \in {1, 2}
                    /\ Num(f) >= 1
                    /\ Num(f) <= (IF dir = "m" THEN 12 ELSE 31) : f \in {f_} })

\* the datetime of the year, month and day, or ValueError if there is no such day
MakeDate(y_, m_, d_) ==
    Value({ IF y < 1 \/ d > DaysInMonth(y, m) THEN Raise("ValueError")
            ELSE DateTime(y, m, d, 0) : y \in {y_}, m \in {m_}, d \in {d_} })

\* the field of fs that the format has for the directive dir
FieldAt(fs, fmt, dir) == fs[CHOOSE i \in 1..3 : fmt.ord[i] = dir]

\* datetime.strptime(s, fmt): a datetime, or ValueError
strptime(s, fmt_) ==
    Value({ IF Len(fs) # 3 \/ \E i \in 1..3 : ~FieldOk(fs[i], fmt.ord[i])
            THEN Raise("ValueError")
            ELSE MakeDate(Num(FieldAt(fs, fmt, "Y")), Num(FieldAt(fs, fmt, "m")),
                          Num(FieldAt(fs, fmt, "d"))) :
            fmt \in {fmt_}, fs \in {SplitOn(s, fmt_.sep)} })

Digits2(n_) ==
    Value({ <<DigitChars[((n \div 10) % 10) + 1], DigitChars[(n % 10) + 1]>> : n \in {n_} })
Digits4(n_) == Value({ Digits2(n \div 100) \o Digits2(n % 100) : n \in {n_} })

\* dt.strftime('%Y-%m-%d'), for a year of four digits
strftime(dt_) ==
    Value({ Digits4(dt.y) \o <<"-">> \o Digits2(dt.m) \o <<"-">> \o Digits2(dt.d) :
            dt \in {dt_} })

\* the loop over the formats: the first that parses, else None
RECURSIVE ParseDob(_, _)
ParseDob(s, i) ==
    IF i > Len(DateFormats) THEN None
    ELSE Value({ IF IsRaise(r) THEN ParseDob(s, i + 1) ELSE r :
                 r \in {strptime(s, DateFormats[i])} })

(***************************************************************************)
(* difflib.SequenceMatcher(None, a, b).ratio().  Positions are counted     *)
(* from 0 and ranges are half-open, as in difflib.                         *)
(***************************************************************************)
\* length of the common run of a from i and b from j, within a[..ahi), b[..bhi)
RECURSIVE RunLen(_, _, _, _, _, _)
RunLen(a, b, i_, j_, ahi, bhi) ==
    Value({ IF i < ahi /\ j < bhi /\ a[i + 1] = b[j + 1]
            THEN 1 + RunLen(a, b, i + 1, j + 1, ahi, bhi)
            ELSE 0 : i \in {i_}, j \in {j_} })

\* of the positions P with their runs, the block that find_longest_match
\* takes: among the longest the one starting earliest in a, then earliest in b
LongestOf(P, run, size) ==
    Value({ [i |-> i, j |-> SetMin({p[2] : p \in {x \in P : run[x] = size /\ x[1] = i}}),
             k |-> size] :
            i \in {SetMin({p[1] : p \in {x \in P : run[x] = size}})} })

\* find_longest_match: the longest common block of a[alo:ahi] and b[blo:bhi]
find_longest_match(a, b, alo, ahi, blo, bhi) ==
    Value({ Value({ IF size = 0 THEN [i |-> alo, j |-> blo, k |-> 0]
                    ELSE LongestOf(DOMAIN run, run, size) :
                    size \in {SetMax({run[p] : p \in DOMAIN run})} }) :
            run \in {[p \in (alo..(ahi - 1)) \X (blo..(bhi - 1)) |->
                         RunLen(a, b, p[1], p[2], ahi, bhi)]} })

\* the total size of get_matching_blocks(): the longest block, then the
\* pieces to its left and to its right
RECURSIVE MatchingSize(_, _, _, _, _, _)
MatchingSize(a, b, alo_, ahi_, blo_, bhi_) ==
    Value({ IF alo >= ahi \/ blo >= bhi THEN 0
            ELSE Value({ IF x.k = 0 THEN 0
                         ELSE x.k + MatchingSize(a, b, alo, x.i, blo, x.j)
                                  + MatchingSize(a, b, x.i + x.k, ahi, x.j + x.k, bhi) :
                         x \in {find_longest_match(a, b, alo, ahi, blo, bhi)} }) :
            alo \in {alo_}, ahi \in {ahi_}, blo \in {blo_}, bhi \in {bhi_} })

\* float literals of the source: the double nearest to the decimal
F0 == FZero
F1 == FInt(1)
F2 == FInt(2)
F3 == FInt(3)
F0_1 == FRatio(1, 10)
F0_2 == FRatio(2, 10)
F0_4 == FRatio(4, 10)
F0_5 == FRatio(5, 10)
F0_6 == FRatio(6, 10)
F0_7 == FRatio(7, 10)
F0_8 == FRatio(8, 10)

\* ratio(): 2.0 * matches / length, and 1.0 for two empty strings
SequenceMatcherRatio(a_, b_) ==
    Value({ IF Len(a) + Len(b) = 0 THEN F1
            ELSE FDiv(FMul(F2, FInt(MatchingSize(a, b, 0, Len(a), 0, Len(b)))),
                      FInt(Len(a) + Len(b))) : a \in {a_}, b \in {b_} })

(***************************************************************************)
(* jellyfish.jaro_winkler_similarity(s1, s2): the Jaro similarity with the *)
(* Winkler prefix boost.  Positions are counted from 1 here.               *)
(***************************************************************************)
\* The matching pass: each character of s1, in order, takes the first
\* unused equal character of s2 within the search range.  f1 and f2 are the
\* flagged positions of s1 and s2.
RECURSIVE JaroFlags(_, _, _, _, _, _)
JaroFlags(s1, s2, range, i_, f1_, f2_) ==
    Value({ IF i > Len(s1) THEN [f1 |-> f1, f2 |-> f2]
            ELSE Value({ IF c = {} THEN JaroFlags(s1, s2, range, i + 1, f1, f2)
                         ELSE JaroFlags(s1, s2, range, i + 1,
                                        f1 \cup {i}, f2 \cup {SetMin(c)}) :
                         c \in {{j \in Max2(1, i - range)..Min2(i + range, Len(s2)) :
                                    j \notin f2 /\ s2[j] = s1[i]}} }) :
            i \in {i_}, f1 \in {f1_}, f2 \in {f2_} })

\* the characters of s at the positions f, in order
Flagged(s_, f_) ==
    Value({ SelectSeq([i \in 1..Len(s) |-> IF i \in f THEN <<s[i]>> ELSE <<>>],
                      LAMBDA x : x # <<>>) : s \in {s_}, f \in {f_} })

RECURSIVE CommonPrefix(_, _, _, _)
CommonPrefix(s1, s2, i_, j) ==
    Value({ IF i < j /\ s1[i + 1] = s2[i + 1] THEN CommonPrefix(s1, s2, i + 1, j) ELSE i :
            i \in {i_} })

\* the Winkler boost of the Jaro similarity weight for a common prefix
WinklerBoost(weight_, prefix_) ==
    Value({ IF FGt(weight, F0_7) /\ prefix > 0
            THEN FAdd(weight, FMul(FMul(FInt(prefix), F0_1), FSub(F1, weight)))
            ELSE weight : weight \in {weight_}, prefix \in {prefix_} })

\* the Jaro similarity of s1 and s2 with common matching characters, of
\* which trans pairs are transposed
JaroWeight(s1, s2, common_, trans) ==
    Value({ FDiv(FAdd(FAdd(FDiv(FInt(common), FInt(Len(s1))),
                           FDiv(FInt(common), FInt(Len(s2)))),
                      FDiv(FInt(common - trans), FInt(common))),
                 F3) : common \in {common_} })

\* the number of transpositions between the matched characters m1 and m2
Transpositions(m1_, m2_) ==
    Value({ Cardinality({k \in 1..Len(m1) : m1[k] # m2[k]}) \div 2 :
            m1 \in {m1_}, m2 \in {m2_} })

jaro_winkler_similarity(s1_, s2_) ==
    Value({ IF Len(s1) = 0 \/ Len(s2) = 0 THEN F0
            ELSE Value({ IF fl.f1 = {} THEN F0
                         ELSE WinklerBoost(
                                JaroWeight(s1, s2, Cardinality(fl.f1),
                                           Transpositions(Flagged(s1, fl.f1),
                                                          Flagged(s2, fl.f2))),
                                CommonPrefix(s1, s2, 0, Min2(Min2(Len(s1), Len(s2)), 4))) :
                         fl \in {JaroFlags(s1, s2,
                                           Max2(0, (Max2(Len(s1), Len(s2)) \div 2) - 1),
                                           1, {}, {})} }) :
            s1 \in {s1_}, s2 \in {s2_} })

(***************************************************************************)
(* The attribute comparators.  Each returns Float(score) or Raise(exc).    *)
(***************************************************************************)
FMax3(x, y, z) == FMax(FMax(x, y), z)

\* parts_overlap divided by the size of the larger set of parts: a variant
\* of PartsOverlap that the division by the first name's parts must tell
\* apart from it
PartsOverlapOfLarger(tenant_parts_, match_parts_) ==
    Value({ IF tenant_parts # {}
            THEN FRatio(Cardinality(tenant_parts \cap match_parts),
                        Max2(Cardinality(tenant_parts), Cardinality(match_parts)))
            ELSE F0 : tenant_parts \in {tenant_parts_}, match_parts \in {match_parts_} })

\* parts_overlap of _calculate_name_similarity
PartsOverlap(tenant_parts_, match_parts_) ==
    Value({ IF tenant_parts # {}
            THEN FRatio(Cardinality(tenant_parts \cap match_parts),
                        Cardinality(tenant_parts))
            ELSE F0 : tenant_parts \in {tenant_parts_}, match_parts \in {match_parts_} })

\* _calculate_name_similarity(tenant_name, match_name)
_calculate_name_similarity(tenant_name_, match_name_) ==
    Value({ IF ~Truthy(tenant_name) \/ ~Truthy(match_name) THEN Float(F0)
            ELSE Value({ IF IsRaise(tn) THEN tn
                         ELSE IF IsRaise(mn) THEN mn
                         ELSE Float(FMax3(SequenceMatcherRatio(tn.v, mn.v),
                                          jaro_winkler_similarity(tn.v, mn.v),
                                          PartsOverlap(Tokens(tn.v), Tokens(mn.v)))) :
                         tn \in {_normalize_name(tenant_name)},
                         mn \in {_normalize_name(match_name)} }) :
            tenant_name \in {tenant_name_}, match_name \in {match_name_} })

\* the value has a .year attribute
HasYear(v) == v.t \in {"datetime", "date"}

\* _compare_dates(date1, date2)
_compare_dates(date1_, date2_) ==
    Value({ IF date1 = None \/ date2 = None THEN Float(F0)
            ELSE IF PyEq(date1, date2) THEN Float(F1)
            ELSE IF ~HasYear(date1) \/ ~HasYear(date2) THEN Raise("AttributeError")
            ELSE IF date1.y = date2.y THEN Float(F0_5)
            ELSE Float(F0) : date1 \in {date1_}, date2 \in {date2_} })

\* _compare_locations(tenant_location, match_location)
_compare_locations(tenant_location_, match_location_) ==
    Value({ IF ~Truthy(tenant_location) \/ ~Truthy(match_location) THEN Float(F0)
            ELSE Value({ IF IsRaise(tl) THEN tl
                         ELSE IF IsRaise(ml) THEN ml
                         ELSE Float(SequenceMatcherRatio(tl.v, ml.v)) :
                         tl \in {_normalize_name(tenant_location)},
                         ml \in {_normalize_name(match_location)} }) :
            tenant_location \in {tenant_location_}, match_location \in {match_location_} })

\* _compare_nationalities(tenant_nationality, match_nationality)
_compare_nationalities(tenant_nationality_, match_nationality_) ==
    Value({ IF ~Truthy(tenant_nationality) \/ ~Truthy(match_nationality) THEN Float(F0)
            ELSE Value({ IF IsRaise(tn) THEN tn
                         ELSE IF IsRaise(mn) THEN mn
                         ELSE IF tn.v = mn.v THEN Float(F1)
                         ELSE Float(F0) :
                         tn \in {_normalize_name(tenant_nationality)},
                         mn \in {_normalize_name(match_nationality)} }) :
            tenant_nationality \in {tenant_nationality_},
            match_nationality \in {match_nationality_} })

gender_map ==
    [k \in {<<"m">>, <<"f">>, <<"m", "a", "l", "e">>, <<"f", "e", "m", "a", "l", "e">>,
            <<"m", "a", "n">>, <<"w", "o", "m", "a", "n">>} |->
        IF k \in {<<"m">>, <<"m", "a", "l", "e">>, <<"m", "a", "n">>}
        THEN <<"m", "a", "l", "e">>
        ELSE <<"f", "e", "m", "a", "l", "e">>]

\* gender_map.get(g, g)
MapGender(g_) == Value({ IF g \in DOMAIN gender_map THEN gender_map[g] ELSE g : g \in {g_} })

\* _compare_gender(tenant_gender, match_gender)
_compare_gender(tenant_gender_, match_gender_) ==
    Value({ IF ~Truthy(tenant_gender) \/ ~Truthy(match_gender) THEN Float(F0)
            ELSE IF tenant_gender.t # "str" \/ match_gender.t # "str"
            THEN Raise("AttributeError")                \* .lower() on a non-string
            ELSE IF MapGender(strip(lower(tenant_gender.v)))
                    = MapGender(strip(lower(match_gender.v)))
            THEN Float(F1) ELSE Float(F0) :
            tenant_gender \in {tenant_gender_}, match_gender \in {match_gender_} })

(***************************************************************************)
(* Dicts.                                                                  *)
(***************************************************************************)
Has(d, k) == k \in DOMAIN d
\* d[k] = v
Put(d, k, v) == (k :> v) @@ d

NameFields == <<"first_name", "middle_name", "last_name", "full_name">>
NameFieldSet == Range(NameFields)

\* today.year - dob.year - ((today.month, today.day) < (dob.month, dob.day))
AgeOn(today_, dob_) ==
    Value({ today.y - dob.y
            - (IF today.m < dob.m \/ (today.m = dob.m /\ today.d < dob.d) THEN 1 ELSE 0) :
            today \in {today_}, dob \in {dob_} })

\* the name fields of data that are present and truthy, normalised
NormalizeNames(data_) ==
    Value({ [k \in DOMAIN data |->
                IF k \in NameFieldSet /\ Truthy(data[k])
                THEN _normalize_name(data[k]) ELSE data[k]] : data \in {data_} })

\* name_parts: the tokens of every present, truthy, normalised name
NameParts(named_) ==
    Value({ UNION {Tokens(named[k].v) :
                     k \in {x \in DOMAIN named \cap NameFieldSet : Truthy(named[x])}} :
            named \in {named_} })

\* a truthy str dob is parsed, or becomes None
NormalizeDob(normalized_) ==
    Value({ IF Has(normalized, "dob") /\ Truthy(normalized["dob"])
               /\ normalized["dob"].t = "str"
            THEN Put(normalized, "dob", ParseDob(normalized["dob"].v, 1))
            ELSE normalized : normalized \in {normalized_} })

\* the age, when the dob is a datetime
NormalizeAge(normalized_, today) ==
    Value({ IF Has(normalized, "dob") /\ normalized["dob"].t = "datetime"
            THEN Put(normalized, "age", PyInt(AgeOn(today, normalized["dob"])))
            ELSE normalized : normalized \in {normalized_} })

\* _normalize_tenant_data(data), called on the day `today`: Dict(normalized)
\* or Raise(exc).  data is the dict's function.
_normalize_tenant_data(data, today) ==
    Value({ IF \E k \in DOMAIN named : IsRaise(named[k])
            THEN Raise("TypeError")
            ELSE Dict(NormalizeAge(NormalizeDob(Put(named, "name_parts",
                                                    PySet(NameParts(named)))), today)) :
            named \in {NormalizeNames(data)} })

(***************************************************************************)
(* The classifier.                                                         *)
(***************************************************************************)
\* MATCH_CATEGORIES, in the order of the dict
MATCH_CATEGORIES ==
    << [category |-> "HIGH_RELEVANCE",   min_score |-> F0_8,
        label |-> "Highly Relevant Match"],
       [category |-> "MEDIUM_RELEVANCE", min_score |-> F0_6,
        label |-> "Potentially Relevant Match"],
       [category |-> "LOW_RELEVANCE",    min_score |-> F0_4,
        label |-> "Low Relevance Match"],
       [category |-> "NOT_RELEVANT",     min_score |-> F0,
        label |-> "Not Relevant"] >>

\* sorted(items, key=min_score, reverse=True): the largest first, then the rest
RECURSIVE SortedByMinScore(_)
SortedByMinScore(items_) ==
    Value({ IF items = <<>> THEN <<>>
            ELSE Value({ <<items[i]>> \o
                         SortedByMinScore(SubSeq(items, 1, i - 1)
                                          \o SubSeq(items, i + 1, Len(items))) :
                         i \in {CHOOSE x \in 1..Len(items) :
                                  /\ \A y \in 1..Len(items) :
                                         FGe(items[x].min_score, items[y].min_score)
                                  /\ \A y \in 1..(x - 1) :
                                         FGt(items[x].min_score, items[y].min_score)} }) :
            items \in {items_} })

\* the loop with exclusive thresholds (score > min_score): a variant of
\* FirstCategory that the threshold property must tell apart from it
RECURSIVE FirstCategoryExclusive(_, _, _)
FirstCategoryExclusive(sorted, score, i) ==
    IF i > Len(sorted)
    THEN [category |-> "NOT_RELEVANT", label |-> "Not Relevant", score |-> score]
    ELSE IF FGt(score, sorted[i].min_score)
    THEN [category |-> sorted[i].category, label |-> sorted[i].label, score |-> score]
    ELSE FirstCategoryExclusive(sorted, score, i + 1)

\* the loop of _get_match_category: the first category, from position i,
\* whose min_score the score reaches; NOT_RELEVANT when there is none
RECURSIVE FirstCategory(_, _, _)
FirstCategory(sorted, score, i) ==
    IF i > Len(sorted)
    THEN [category |-> "NOT_RELEVANT", label |-> "Not Relevant", score |-> score]
    ELSE IF FGe(score, sorted[i].min_score)
    THEN [category |-> sorted[i].category, label |-> sorted[i].label, score |-> score]
    ELSE FirstCategory(sorted, score, i + 1)

\* _get_match_category(score)
_get_match_category(score_) ==
    Value({ FirstCategory(sorted, score, 1) :
            sorted \in {SortedByMinScore(MATCH_CATEGORIES)}, score \in {score_} })

(***************************************************************************)
(* The aggregator: evaluate_match.                                         *)
(***************************************************************************)
\* the digits of h hundredths
Hundredths(h_) ==
    Value({ <<DigitChars[(h \div 100) + 1], ".">> \o Digits2(h % 100) : h \in {h_} })

\* n / 2^r rounded to an integer, half to even
RoundShift(n_, r_) ==
    Value({ Value({ (IF kept = <<>> THEN 0 ELSE kept[1])
                    + (IF BBit(n, r - 1) = 1
                          /\ (BLowBits(n, r - 1) \/ BBit(kept, 0) = 1) THEN 1 ELSE 0) :
                    kept \in {BShr(n, r)} }) :
            n \in {n_}, r \in {r_} })

\* f"{x:.2f}": x to two decimals, the exact value rounded half to even
Format2f(x_) ==
    Value({ IF FIsZero(x) THEN <<"0", ".", "0", "0">>
            ELSE Hundredths(RoundShift(BMulSmall(x.m, 100), 0 - x.e)) : x \in {x_} })

\* a reason: its message and the formatted score in it, if any
Reason(text, arg) == [text |-> text, arg |-> arg]

OptionalFields == <<"dob", "location", "nationality", "gender">>
OptionalKeys == Range(OptionalFields)

\* 'k' in normalized_match and 'k' in self.tenant_data
Both(tenant_data, normalized_match, k) == Has(normalized_match, k) /\ Has(tenant_data, k)

\* parts_score: the share of the larger set of name parts that both hold
PartsScore(tenant_parts_, match_parts_) ==
    Value({ IF tenant_parts # {} /\ match_parts # {}
            THEN FRatio(Cardinality(tenant_parts \cap match_parts),
                        Max2(Cardinality(tenant_parts), Cardinality(match_parts)))
            ELSE F0 : tenant_parts \in {tenant_parts_}, match_parts \in {match_parts_} })

\* the score of the name field k, 0.0 unless both sides hold the key
FieldNameScore(tenant_data, normalized_match, k) ==
    IF Both(tenant_data, normalized_match, k)
    THEN _calculate_name_similarity(tenant_data[k], normalized_match[k]).v
    ELSE F0

\* name_score: the full names if both hold one, else the best of the first
\* names, the last names and the name parts
NameScore(tenant_data, normalized_match) ==
    IF Both(tenant_data, normalized_match, "full_name")
    THEN FieldNameScore(tenant_data, normalized_match, "full_name")
    ELSE FMax3(FieldNameScore(tenant_data, normalized_match, "first_name"),
               FieldNameScore(tenant_data, normalized_match, "last_name"),
               IF Both(tenant_data, normalized_match, "name_parts")
               THEN PartsScore(tenant_data["name_parts"].v, normalized_match["name_parts"].v)
               ELSE F0)

\* the comparison of the optional attribute k, made only when both sides
\* hold the key: Float(score) or Raise(exc)
Compare(tenant_data, normalized_match, k) ==
    IF ~Both(tenant_data, normalized_match, k) THEN Float(F0)
    ELSE CASE k = "dob" -> _compare_dates(tenant_data[k], normalized_match[k])
           [] k = "location" -> _compare_locations(tenant_data[k], normalized_match[k])
           [] k = "nationality" ->
                  _compare_nationalities(tenant_data[k], normalized_match[k])
           [] k = "gender" -> _compare_gender(tenant_data[k], normalized_match[k])

\* the exception of the first comparison that raises, "" if none does
FirstRaised(compared) ==
    IF IsRaise(compared["dob"]) THEN compared["dob"].v
    ELSE IF IsRaise(compared["location"]) THEN compared["location"].v
    ELSE IF IsRaise(compared["nationality"]) THEN compared["nationality"].v
    ELSE IF IsRaise(compared["gender"]) THEN compared["gender"].v
    ELSE ""

\* total_weight += weight, if the attribute is included
AddIf(total_weight, included, weight) ==
    IF included THEN FAdd(total_weight, weight) ELSE total_weight

\* total_weight with all five weights added, whichever keys the two sides
\* hold: a variant of TotalWeight that the gain from removing a mismatching
\* attribute must tell apart from it
TotalWeightOfAll(included) ==
    FAdd(FAdd(FAdd(FAdd(F0_5, F0_2), F0_1), F0_1), F0_1)

\* total_weight: the name weight, plus each weight whose key both sides hold
TotalWeight(included) ==
    AddIf(AddIf(AddIf(AddIf(F0_5, "dob" \in included, F0_2),
                      "location" \in included, F0_1),
                "nationality" \in included, F0_1),
          "gender" \in included, F0_1)

\* the normalised weights (total_weight > 0 always holds)
Weights(included, total_weight_) ==
    Value({ [total_weight       |-> total_weight,
             name_weight        |-> FDiv(F0_5, total_weight),
             dob_weight         |->
                 IF "dob" \in included THEN FDiv(F0_2, total_weight) ELSE F0,
             location_weight    |->
                 IF "location" \in included THEN FDiv(F0_1, total_weight) ELSE F0,
             nationality_weight |->
                 IF "nationality" \in included THEN FDiv(F0_1, total_weight) ELSE F0,
             gender_weight      |->
                 IF "gender" \in included THEN FDiv(F0_1, total_weight) ELSE F0] :
            total_weight \in {total_weight_} })

\* relevance_score: the weighted sum, added from left to right
RelevanceScore(s, w) ==
    FAdd(FAdd(FAdd(FAdd(FMul(s.name_score, w.name_weight),
                        FMul(s.dob_score, w.dob_weight)),
                   FMul(s.location_score, w.location_weight)),
              FMul(s.nationality_score, w.nationality_weight)),
         FMul(s.gender_score, w.gender_weight))

\* the reasons one attribute adds: m to match_reasons, x to mismatch_reasons
NameReason(name_score) ==
    IF FGt(name_score, F0_8)
    THEN [m |-> <<Reason("Name is a strong match", Format2f(name_score))>>, x |-> <<>>]
    ELSE IF FGt(name_score, F0_5)
    THEN [m |-> <<Reason("Name is a partial match", Format2f(name_score))>>, x |-> <<>>]
    ELSE [m |-> <<>>, x |-> <<Reason("Name is not a good match", Format2f(name_score))>>]

DobReason(dob_score, included) ==
    IF dob_score = F1
    THEN [m |-> <<Reason("Date of birth matches exactly", <<>>)>>, x |-> <<>>]
    ELSE IF FGt(dob_score, F0)
    THEN [m |-> <<Reason("Date of birth partially matches", <<>>)>>, x |-> <<>>]
    ELSE IF "dob" \in included
    THEN [m |-> <<>>, x |-> <<Reason("Date of birth does not match", <<>>)>>]
    ELSE [m |-> <<>>, x |-> <<>>]

LocationReason(location_score) ==
    IF FGt(location_score, F0_8)
    THEN [m |-> <<Reason("Location is a strong match", Format2f(location_score))>>,
          x |-> <<>>]
    ELSE IF FGt(location_score, F0_5)
    THEN [m |-> <<Reason("Location is a partial match", Format2f(location_score))>>,
          x |-> <<>>]
    ELSE [m |-> <<>>, x |-> <<>>]

NationalityReason(nationality_score, included) ==
    IF nationality_score = F1
    THEN [m |-> <<Reason("Nationality matches exactly", <<>>)>>, x |-> <<>>]
    ELSE IF "nationality" \in included
    THEN [m |-> <<>>, x |-> <<Reason("Nationality does not match", <<>>)>>]
    ELSE [m |-> <<>>, x |-> <<>>]

GenderReason(gender_score, included) ==
    IF gender_score = F1
    THEN [m |-> <<Reason("Gender matches", <<>>)>>, x |-> <<>>]
    ELSE IF "gender" \in included
    THEN [m |-> <<>>, x |-> <<Reason("Gender does not match", <<>>)>>]
    ELSE [m |-> <<>>, x |-> <<>>]

\* the five attributes' reasons, in the order the source appends them
Reasons(s, included) ==
    << NameReason(s.name_score), DobReason(s.dob_score, included),
       LocationReason(s.location_score), NationalityReason(s.nationality_score, included),
       GenderReason(s.gender_score, included) >>

\* result: the caller's data with the evaluation fields, and a datetime dob
\* as a string
Result(match_data, relevance_score, match_category_, reasons_) ==
    Value({ Value({ IF Has(evaluated, "dob") /\ evaluated["dob"].t = "datetime"
                    THEN Put(evaluated, "dob", Str(strftime(evaluated["dob"])))
                    ELSE evaluated :
                    evaluated \in
                      {[relevance_score  |-> Float(relevance_score),
                        match_category   |-> Text(match_category.category),
                        match_label      |-> Text(match_category.label),
                        match_reasons    |->
                            List(reasons[1].m \o reasons[2].m \o reasons[3].m
                                 \o reasons[4].m \o reasons[5].m),
                        mismatch_reasons |->
                            List(reasons[1].x \o reasons[2].x \o reasons[3].x
                                 \o reasons[4].x \o reasons[5].x)] @@ match_data.v} }) :
            match_category \in {match_category_}, reasons \in {reasons_} })

\* the local variables at the return had result been match_data itself and
\* not a copy of it: a variant of Frame that the untouched candidate must
\* tell apart from it
FrameInPlace(match_data, normalized_match, included, s, w, relevance_score_) ==
    Value({ [raised             |-> "",
             match_data         |->
                 Dict(Result(match_data, relevance_score,
                             _get_match_category(relevance_score),
                             Reasons(s, included))),
             normalized_match   |-> normalized_match,
             included           |-> included,
             name_score         |-> s.name_score,
             dob_score          |-> s.dob_score,
             location_score     |-> s.location_score,
             nationality_score  |-> s.nationality_score,
             gender_score       |-> s.gender_score,
             total_weight       |-> w.total_weight,
             name_weight        |-> w.name_weight,
             dob_weight         |-> w.dob_weight,
             location_weight    |-> w.location_weight,
             nationality_weight |-> w.nationality_weight,
             gender_weight      |-> w.gender_weight,
             relevance_score    |-> relevance_score,
             result             |->
                 Dict(Result(match_data, relevance_score,
                             _get_match_category(relevance_score),
                             Reasons(s, included)))] :
            relevance_score \in {relevance_score_} })

\* the local variables at the return, from the scores s and the weights w;
\* match_data is the caller's dict as the call leaves it
Frame(match_data, normalized_match, included, s, w, relevance_score_) ==
    Value({ [raised             |-> "",
             match_data         |-> match_data,        \* the caller's dict: only copies are written
             normalized_match   |-> normalized_match,
             included           |-> included,
             name_score         |-> s.name_score,
             dob_score          |-> s.dob_score,
             location_score     |-> s.location_score,
             nationality_score  |-> s.nationality_score,
             gender_score       |-> s.gender_score,
             total_weight       |-> w.total_weight,
             name_weight        |-> w.name_weight,
             dob_weight         |-> w.dob_weight,
             location_weight    |-> w.location_weight,
             nationality_weight |-> w.nationality_weight,
             gender_weight      |-> w.gender_weight,
             relevance_score    |-> relevance_score,
             result             |->
                 Dict(Result(match_data, relevance_score,
                             _get_match_category(relevance_score),
                             Reasons(s, included)))] :
            relevance_score \in {relevance_score_} })

\* evaluate_match from the weighting on, for the scores s
Weigh(match_data, normalized_match, included, s) ==
    Value({ Frame(match_data, normalized_match, included, s, w, RelevanceScore(s, w)) :
            w \in {Weights(included, TotalWeight(included))} })

\* evaluate_match from the comparisons on
Score(tenant_data, match_data, normalized_match) ==
    Value({ IF FirstRaised(compared) # "" THEN [raised |-> FirstRaised(compared)]
            ELSE Weigh(match_data, normalized_match, included,
                       [name_score        |-> name_score,
                        dob_score         |-> compared["dob"].v,
                        location_score    |-> compared["location"].v,
                        nationality_score |-> compared["nationality"].v,
                        gender_score      |-> compared["gender"].v]) :
            name_score \in {NameScore(tenant_data, normalized_match)},
            compared \in {[k \in OptionalKeys |-> Compare(tenant_data, normalized_match, k)]},
            included \in {{k \in OptionalKeys : Both(tenant_data, normalized_match, k)}} })

\* The local variables of evaluate_match(match_data) at its return, for an
\* evaluator holding tenant_data, or the exception that leaves it.
\* tenant_data is the function of the evaluator's dict; match_data is a value.
evaluate_match_frame(tenant_data_, match_data_, today) ==
    Value({ IF match_data.t # "dict" THEN [raised |-> "AttributeError"]  \* match_data.copy()
            ELSE Value({ IF IsRaise(normalized) THEN [raised |-> normalized.v]
                         ELSE Score(tenant_data, match_data, normalized.v) :
                         normalized \in {_normalize_tenant_data(match_data.v, today)} }) :
            tenant_data \in {tenant_data_}, match_data \in {match_data_} })

\* evaluate_match(match_data): the result dict, or the exception
\* what evaluate_match returns or raises, from its local variables
Returned(f_) ==
    Value({ IF f.raised # "" THEN Raise(f.raised) ELSE f.result : f \in {f_} })

evaluate_match(tenant_data, match_data, today) ==
    Returned(evaluate_match_frame(tenant_data, match_data, today))

(***************************************************************************)
(* The batch and pipeline operations.                                      *)
(***************************************************************************)
\* the comprehension collecting the results last-first: a variant of
\* EvaluateFrom that the order property must tell apart from it
RECURSIVE EvaluateFromReversed(_, _, _, _, _)
EvaluateFromReversed(tenant_data, matches, i_, acc_, today) ==
    Value({ IF i > Len(matches) THEN List(acc)
            ELSE Value({ IF IsRaise(r) THEN r
                         ELSE EvaluateFromReversed(tenant_data, matches, i + 1,
                                                   <<r>> \o acc, today) :
                         r \in {evaluate_match(tenant_data, matches[i], today)} }) :
            i \in {i_}, acc \in {acc_} })

\* the comprehension on an evaluator that keeps the candidate it normalized
\* last as its reference: a variant of EvaluateFrom that the independence of
\* the evaluations must tell apart from it
RECURSIVE EvaluateFromCarrying(_, _, _, _, _)
EvaluateFromCarrying(tenant_data, matches, i_, acc_, today) ==
    Value({ IF i > Len(matches) THEN List(acc)
            ELSE Value({ IF IsRaise(r) THEN r
                         ELSE EvaluateFromCarrying(tenant_data, matches, i + 1,
                                                   Append(acc, r), today) :
                         r \in {evaluate_match(
                                   IF i > 1
                                   THEN _normalize_tenant_data(matches[i - 1].v, today).v
                                   ELSE tenant_data,
                                   matches[i], today)} }) :
            i \in {i_}, acc \in {acc_} })

\* the list comprehension of evaluate_matches, from position i: the results
\* so far in acc, or the exception of the first candidate that raises
RECURSIVE EvaluateFrom(_, _, _, _, _)
EvaluateFrom(tenant_data, matches, i_, acc_, today) ==
    Value({ IF i > Len(matches) THEN List(acc)
            ELSE Value({ IF IsRaise(r) THEN r
                         ELSE EvaluateFrom(tenant_data, matches, i + 1,
                                           Append(acc, r), today) :
                         r \in {evaluate_match(tenant_data, matches[i], today)} }) :
            i \in {i_}, acc \in {acc_} })

\* evaluate_matches(matches); iterating None raises TypeError
evaluate_matches(tenant_data_, matches_, today) ==
    Value({ IF matches.t = "list"
            THEN EvaluateFrom(tenant_data, matches.v, 1, <<>>, today)
            ELSE Raise("TypeError") :
            tenant_data \in {tenant_data_}, matches \in {matches_} })

\* matches.extend(results): a list gives its elements, a str its characters,
\* None and an int are not iterable
Extend(matches, results_) ==
    Value({ CASE results.t = "list" -> List(matches \o results.v)
              [] results.t = "str"  ->
                    List(matches \o [i \in 1..Len(results.v) |-> Str(<<results.v[i]>>)])
              [] results.t \in {"none", "int"} -> Raise("TypeError") :
            results \in {results_} })

\* step.get('type') == 'refinitiv-blacklist'
IsBlacklist(step) ==
    Has(step.v, "type") /\ PyEq(step.v["type"], Text("refinitiv-blacklist"))

\* the body of the loop taking the results of a step of any type: a variant
\* of ExtractStep that the selection by type must tell apart from it
ExtractStepAnyType(matches, step_) ==
    Value({ IF step.t # "dict" THEN Raise("AttributeError")
            ELSE IF Has(step.v, "results")
            THEN Extend(matches, step.v["results"])
            ELSE List(matches) : step \in {step_} })

\* the body of the loop for one step: step.get on a step that is no dict
\* raises AttributeError
ExtractStep(matches, step_) ==
    Value({ IF step.t # "dict" THEN Raise("AttributeError")
            ELSE IF IsBlacklist(step) /\ Has(step.v, "results")
            THEN Extend(matches, step.v["results"])
            ELSE List(matches) : step \in {step_} })

\* the for loop over pipeline_steps, from position i
RECURSIVE ExtractFrom(_, _, _)
ExtractFrom(pipeline_steps, i_, matches_) ==
    Value({ IF i > Len(pipeline_steps) THEN List(matches)
            ELSE Value({ IF IsRaise(r) THEN r
                         ELSE ExtractFrom(pipeline_steps, i + 1, r.v) :
                         r \in {ExtractStep(matches, pipeline_steps[i])} }) :
            i \in {i_}, matches \in {matches_} })

\* the two branches on the type of pipeline_steps
ExtractSteps(pipeline_steps_) ==
    Value({ IF pipeline_steps.t = "list" THEN ExtractFrom(pipeline_steps.v, 1, <<>>)
            ELSE IF pipeline_steps.t = "dict" /\ IsBlacklist(pipeline_steps)
            THEN (IF Has(pipeline_steps.v, "results")
                  THEN Extend(<<>>, pipeline_steps.v["results"])
                  ELSE List(<<>>))
            ELSE List(<<>>) : pipeline_steps \in {pipeline_steps_} })

\* extract_matches_from_pipeline(pipeline_data); 'pipeline' in None raises
extract_matches_from_pipeline(pipeline_data_) ==
    Value({ IF pipeline_data.t # "dict" THEN Raise("TypeError")
            ELSE IF Has(pipeline_data.v, "pipeline")
            THEN ExtractSteps(pipeline_data.v["pipeline"])
            ELSE List(<<>>) : pipeline_data \in {pipeline_data_} })

\* len([m for m in evaluated_matches if m['match_category'] == category])
CountCategory(evaluated_matches, category) ==
    Cardinality({i \in 1..Len(evaluated_matches) :
                    PyEq(evaluated_matches[i].v["match_category"], Text(category))})

\* match_counts with a key only for the categories that occur: a variant of
\* MatchCounts that the four-keys property must tell apart from it
MatchCountsOccurring(evaluated_matches_) ==
    Value({ [category \in {evaluated_matches[i].v["match_category"].v :
                              i \in 1..Len(evaluated_matches)} |->
                PyInt(CountCategory(evaluated_matches, category))] :
            evaluated_matches \in {evaluated_matches_} })

\* the match_counts dict: one key for each category of MATCH_CATEGORIES
MatchCounts(evaluated_matches_) ==
    Value({ [category \in {MATCH_CATEGORIES[i].category : i \in 1..Len(MATCH_CATEGORIES)} |->
                PyInt(CountCategory(evaluated_matches, category))] :
            evaluated_matches \in {evaluated_matches_} })

\* the dict evaluate_pipeline_data returns
PipelineResult(pipeline_data, evaluated_matches_) ==
    Value({ IF IsRaise(evaluated_matches) THEN evaluated_matches
            ELSE Dict([original_pipeline_data |-> pipeline_data,
                       evaluated_matches      |-> evaluated_matches,
                       match_counts           |-> Dict(MatchCounts(evaluated_matches.v))]) :
            evaluated_matches \in {evaluated_matches_} })

\* evaluate_pipeline_data(pipeline_data)
evaluate_pipeline_data(tenant_data, pipeline_data_, today) ==
    Value({ IF IsRaise(matches) THEN matches
            ELSE PipelineResult(pipeline_data, evaluate_matches(tenant_data, matches, today)) :
            pipeline_data \in {pipeline_data_},
            matches \in {extract_matches_from_pipeline(pipeline_data_)} })

\* evaluate_tenant(pipeline_data)
evaluate_tenant(tenant_data, pipeline_data, today) ==
    evaluate_pipeline_data(tenant_data, pipeline_data, today)

(***************************************************************************)
(* The inputs: the strings, records, batches and containers the operations *)
(* are called with.                                                        *)
(***************************************************************************)
sJohn == <<"J", "o", "h", "n">>
sDoe == <<"D", "o", "e">>
sJohnny == <<"J", "o", "h", "n", "n", "y">>
sJane == <<"J", "a", "n", "e">>
sSmith == <<"S", "m", "i", "t", "h">>
sJon == <<"J", "o", "n">>
sMaria == <<"M", "a", "r", "i", "a">>
sDoeGarcia == <<"D", "o", "e", " ", "G", "a", "r", "c", "i", "a">>
sJohnDoe == <<"J", "o", "h", "n", " ", "D", "o", "e">>
sDoeJohn == <<"D", "o", "e", " ", "J", "o", "h", "n">>
sJohnODoe == <<"J", "o", "h", "n", " ", "O", "'", "D", "o", "e">>
sDash == <<"-">>
sQuote == <<"'">>
sMale == <<"m", "a", "l", "e">>
sFemale == <<"f", "e", "m", "a", "l", "e">>
sM == <<"M">>
sF == <<"f">>
sMan == <<" ", "M", "a", "n", " ">>
sX == <<"x">>
sUS == <<"U", "S">>
sUK == <<"U", "K">>
sCA == <<"C", "A">>
sUs == <<"u", "s">>
sUdotS == <<"U", ".", "S", ".">>
sNewYork == <<"N", "e", "w", " ", "Y", "o", "r", "k">>
sLondon == <<"L", "o", "n", "d", "o", "n">>
sToronto == <<"T", "o", "r", "o", "n", "t", "o">>
sNew_York == <<"N", "e", "w", "-", "Y", "o", "r", "k">>
sYork == <<"Y", "o", "r", "k">>
d1990_01_01 == <<"1", "9", "9", "0", "-", "0", "1", "-", "0", "1">>
d1991_01_01 == <<"1", "9", "9", "1", "-", "0", "1", "-", "0", "1">>
d1980_05_15 == <<"1", "9", "8", "0", "-", "0", "5", "-", "1", "5">>
d1990_06_01 == <<"1", "9", "9", "0", "-", "0", "6", "-", "0", "1">>
dDMY_slash == <<"0", "1", "/", "0", "1", "/", "1", "9", "9", "0">>
dMDY_slash == <<"1", "2", "/", "3", "1", "/", "1", "9", "9", "0">>
dDMY_dash == <<"0", "1", "-", "0", "1", "-", "1", "9", "9", "0">>
dDMY_1980 == <<"1", "5", "/", "0", "5", "/", "1", "9", "8", "0">>
dFeb30 == <<"1", "9", "9", "0", "-", "0", "2", "-", "3", "0">>
dNotADate == <<"n", "o", "t", " ", "a", " ", "d", "a", "t", "e">>
dNA == <<"n", "/", "a">>
sLow == <<"l", "o", "w">>
sMedium == <<"m", "e", "d", "i", "u", "m">>
sHigh == <<"h", "i", "g", "h">>

\* a dict without the keys in K, and a dict restricted to the keys in K
Without(d_, K) == Value({ [k \in DOMAIN d \ K |-> d[k]] : d \in {d_} })
Only(d_, K) == Value({ [k \in DOMAIN d \cap K |-> d[k]] : d \in {d_} })
\* {**d, **e}
Merge(d, e) == e @@ d

\* the three candidates of the test suite
exact_match_data ==
    [id |-> PyInt(1), first_name |-> Str(sJohn), last_name |-> Str(sDoe),
     dob |-> Str(d1990_01_01), gender |-> Str(sMale), nationality |-> Str(sUS),
     location |-> Str(sNewYork), risk_type |-> Str(sLow)]
partial_match_data ==
    [id |-> PyInt(2), first_name |-> Str(sJohnny), last_name |-> Str(sDoe),
     dob |-> Str(d1991_01_01), gender |-> Str(sMale), nationality |-> Str(sUK),
     location |-> Str(sLondon), risk_type |-> Str(sMedium)]
non_match_data ==
    [id |-> PyInt(3), first_name |-> Str(sJane), last_name |-> Str(sSmith),
     dob |-> Str(d1980_05_15), gender |-> Str(sFemale), nationality |-> Str(sCA),
     location |-> Str(sToronto), risk_type |-> Str(sHigh)]

ScoredKeys == NameFieldSet \cup OptionalKeys

\* the tenant record of the test suite
fixture_tenant_data == Only(exact_match_data, ScoredKeys)

\* the records an evaluator is constructed with
Tenants ==
    { fixture_tenant_data,
      [full_name |-> Str(sJohnDoe), dob |-> DateTime(1990, 1, 1, 0), gender |-> Str(sM),
       nationality |-> Str(sUs), location |-> Str(sNew_York)],
      [first_name |-> Str(sJohn), last_name |-> Str(sDoe), dob |-> Str(<<>>),
       location |-> Str(<<>>), nationality |-> None, gender |-> None],
      [first_name |-> Str(sJane), last_name |-> Str(sSmith), dob |-> Str(dNA),
       gender |-> Str(sFemale), nationality |-> Str(sCA), location |-> Str(sToronto)],
      [first_name |-> Str(sDash), dob |-> Str(dDMY_1980), gender |-> Str(sF),
       nationality |-> Str(sDash), location |-> Str(sDash)],
      [first_name |-> Str(sJohn), last_name |-> Str(sDoe), dob |-> Date(1990, 1, 1)],
      <<>> }

\* the dates datetime.now() falls on
Todays == {Date(2026, 1, 1), Date(2026, 12, 31)}

\* the values a candidate may hold under each optional key
DobValues ==
    { None, Str(<<>>), Str(dNotADate), Str(dDMY_slash), Str(dDMY_dash), Str(dMDY_slash),
      Str(d1990_06_01), Str(dFeb30), DateTime(1990, 1, 1, 0), DateTime(1990, 1, 1, 10),
      Date(1990, 1, 1), PyInt(19900101) }
LocationValues == {None, Str(<<>>), PyInt(7), Str(sNew_York), Str(sYork), Str(sDash)}
NationalityValues == {None, Str(<<>>), PyInt(7), Str(sUs), Str(sUdotS), Str(sDash)}
GenderValues == {None, Str(<<>>), PyInt(7), Str(sM), Str(sMan), Str(sX), Str(sF)}

\* the name fields a candidate may hold
NameRecords ==
    { [first_name |-> Str(sJohn), last_name |-> Str(sDoe)],
      [full_name |-> Str(sJohnDoe)],
      [full_name |-> Str(sDoeJohn)],
      [full_name |-> Str(sJohnODoe), first_name |-> Str(sJane)],
      [first_name |-> Str(sJohn), middle_name |-> Str(sMaria), last_name |-> Str(sDoeGarcia)],
      [first_name |-> Str(sJon)],
      [last_name |-> Str(sDoe)],
      [first_name |-> Str(sDash), last_name |-> Str(sQuote)],
      [first_name |-> None, last_name |-> Str(<<>>)],
      [first_name |-> PyInt(12), last_name |-> Str(sDoe)],
      [full_name |-> None],
      [full_name |-> None, first_name |-> Str(sJohn), last_name |-> Str(sDoe)],
      <<>> }

\* the candidates evaluate_match is called with
Candidates ==
    \* each test candidate, holding each subset of the optional keys
    { Dict(Without(p, OptionalKeys \ K)) :
        p \in {exact_match_data, partial_match_data}, K \in SUBSET OptionalKeys }
    \cup {Dict(non_match_data), Dict(Without(non_match_data, OptionalKeys))}
    \* the exact candidate with one optional value replaced
    \cup {Dict(Put(exact_match_data, "dob", v)) : v \in DobValues}
    \cup {Dict(Put(exact_match_data, "location", v)) : v \in LocationValues}
    \cup {Dict(Put(exact_match_data, "nationality", v)) : v \in NationalityValues}
    \cup {Dict(Put(exact_match_data, "gender", v)) : v \in GenderValues}
    \* each choice of name fields, with and without the optional attributes
    \cup {Dict(Merge(Only(exact_match_data, OptionalKeys \cup {"id"}), n)) : n \in NameRecords}
    \cup {Dict(Merge([id |-> PyInt(9)], n)) : n \in NameRecords}
    \* a copy of each tenant record
    \cup {Dict(t) : t \in Tenants}
    \* a candidate that is no dict
    \cup {None}

\* the longest list evaluate_matches is called with
MaxBatch == 2
\* the most steps in a pipeline list
MaxSteps == 2
\* the scores _get_match_category is called with are the multiples of
\* 1/ScoreSteps up to 1, and the neighbours of the thresholds
ScoreSteps == 20

\* the sequences over S of length at most n
SeqsUpTo(S, n) == UNION {[1..k -> S] : k \in 0..n}

\* the elements of the lists evaluate_matches is called with: the three test
\* candidates and one with a name of the wrong type
BatchItems ==
    { Dict(exact_match_data), Dict(partial_match_data), Dict(non_match_data),
      Dict(Put(exact_match_data, "first_name", PyInt(12))) }
Batches == {List(q) : q \in SeqsUpTo(BatchItems, MaxBatch)}

\* the steps of a pipeline
Steps ==
    { Dict([type |-> Text("refinitiv-blacklist"),
            results |-> List(<<Dict(exact_match_data)>>)]),
      Dict([type |-> Text("refinitiv-blacklist"),
            results |-> List(<<Dict(partial_match_data), Dict(non_match_data)>>)]),
      Dict([type |-> Text("refinitiv-blacklist")]),
      Dict([type |-> Text("other"), results |-> List(<<Dict(exact_match_data)>>)]),
      Dict([results |-> List(<<Dict(partial_match_data)>>)]),
      Dict([type |-> Text("refinitiv-blacklist"), results |-> None]),
      None }

\* the containers the pipeline operations are called with
Pipelines ==
    {Dict([pipeline |-> List(q)]) : q \in SeqsUpTo(Steps, MaxSteps)}
    \cup {Dict([pipeline |-> step]) : step \in Steps}
    \cup { Dict(<<>>), Dict([pipeline |-> Str(sX)]), Dict([steps |-> List(<<>>)]), None,
           Dict([pipeline |-> List(<<Dict([type |-> Text("refinitiv-blacklist"),
                                           results |-> List(<<>>)])>>)]),
           Dict([pipeline |-> List(<<Dict([type |-> Text("refinitiv-blacklist"),
                                           results |-> List(<<Dict(exact_match_data),
                                                              None>>)])>>)]) }

\* the names _normalize_name is called with: those of the test, one with an
\* underscore, one with a digit, one of punctuation only
sJohnDashDoe == <<"J", "o", "h", "n", "-", "D", "o", "e">>
sJohn_Doe == <<"J", "o", "h", "n", "_", "D", "o", "e">>
sJohn2 == <<"J", "o", "h", "n", " ", "2">>
NameValues ==
    { Str(sJohnDoe), Str(sJohnDashDoe), Str(sJohnODoe), Str(<<>>), None,
      Str(sJohn_Doe), Str(sJohn2), Str(sDash) }

\* the names _calculate_name_similarity is called with: those of the test,
\* names whose tokens are among another's, one of punctuation only, and None
sJohnnyDoe == <<"J", "o", "h", "n", "n", "y", " ", "D", "o", "e">>
sJaneSmith == <<"J", "a", "n", "e", " ", "S", "m", "i", "t", "h">>
SimilarityNames ==
    { Str(sJohnDoe), Str(sJohnnyDoe), Str(sJaneSmith), Str(sDoeJohn), Str(sJohn),
      Str(sDoe), Str(sDash), Str(<<>>), None }

\* the dates _compare_dates is called with: those of the test, one with a
\* time of day, a date that is no datetime, and None
DateValues ==
    { None, DateTime(1990, 1, 1, 0), DateTime(1990, 1, 1, 10), DateTime(1990, 2, 1, 0),
      DateTime(1991, 1, 1, 0), Date(1990, 1, 1) }

\* the float just below a positive x that is no power of two
FBelow(x) == [m |-> BSub(x.m, <<1>>), e |-> x.e]
\* the float just above a positive x
FAbove(x) == FRound(BAdd(x.m, <<1>>), x.e, FALSE)

Thresholds == {MATCH_CATEGORIES[i].min_score : i \in 1..(Len(MATCH_CATEGORIES) - 1)}
Scores ==
    {FRatio(n, ScoreSteps) : n \in 0..ScoreSteps}
    \cup Thresholds
    \cup {FBelow(x) : x \in Thresholds} \cup {FAbove(x) : x \in Thresholds}
    \cup {FAbove(F1)}

(***************************************************************************)
(* The state machine: an evaluator, and one call on it at a time.          *)
(***************************************************************************)
VARIABLES
    tenant_input,   \* the record the evaluator was constructed with
    tenant_data,    \* self.tenant_data
    today,          \* the date of datetime.now()
    op,             \* the method that has returned, or "idle"
    arg,            \* its argument
    ret,            \* what it returned, or the exception it raised
    frame           \* the local variables of evaluate_match at its return

vars == <<tenant_input, tenant_data, today, op, arg, ret, frame>>

NoFrame == [raised |-> "no call"]

\* __init__(tenant_data)
Init ==
    /\ tenant_input \in Tenants
    /\ today \in Todays
    /\ tenant_data = _normalize_tenant_data(tenant_input, today).v
    /\ op = "idle"
    /\ arg = None
    /\ ret = None
    /\ frame = NoFrame

\* evaluate_match adding the candidate's name parts to the evaluator's own
\* set (set.update in place of set.intersection): a variant of EvaluateMatch
\* that the frozen reference identity must tell apart from it
EvaluateMatchUpdating(match_data) ==
    /\ op = "idle"
    /\ op' = "evaluate_match"
    /\ arg' = match_data
    /\ frame' = evaluate_match_frame(tenant_data, match_data, today)
    /\ ret' = Returned(frame')
    /\ tenant_data' =
           IF frame'.raised = ""
           THEN Put(tenant_data, "name_parts",
                    PySet(tenant_data["name_parts"].v
                          \cup frame'.normalized_match["name_parts"].v))
           ELSE tenant_data
    /\ UNCHANGED <<tenant_input, today>>

\* evaluate_match(match_data)
EvaluateMatch(match_data) ==
    /\ op = "idle"
    /\ op' = "evaluate_match"
    /\ arg' = match_data
    /\ frame' = evaluate_match_frame(tenant_data, match_data, today)
    /\ ret' = Returned(frame')
    /\ UNCHANGED <<tenant_input, tenant_data, today>>

EvaluateMatches(matches) ==
    /\ op = "idle"
    /\ op' = "evaluate_matches"
    /\ arg' = matches
    /\ ret' = evaluate_matches(tenant_data, matches, today)
    /\ frame' = NoFrame
    /\ UNCHANGED <<tenant_input, tenant_data, today>>

ExtractMatchesFromPipeline(pipeline_data) ==
    /\ op = "idle"
    /\ op' = "extract_matches_from_pipeline"
    /\ arg' = pipeline_data
    /\ ret' = extract_matches_from_pipeline(pipeline_data)
    /\ frame' = NoFrame
    /\ UNCHANGED <<tenant_input, tenant_data, today>>

EvaluatePipelineData(pipeline_data) ==
    /\ op = "idle"
    /\ op' = "evaluate_pipeline_data"
    /\ arg' = pipeline_data
    /\ ret' = evaluate_pipeline_data(tenant_data, pipeline_data, today)
    /\ frame' = NoFrame
    /\ UNCHANGED <<tenant_input, tenant_data, today>>

\* the dict _get_match_category returns
CategoryDict(c_) ==
    Value({ Dict([category |-> Text(c.category), label |-> Text(c.label),
                  score |-> Float(c.score)]) : c \in {c_} })

GetMatchCategory(score) ==
    /\ op = "idle"
    /\ op' = "_get_match_category"
    /\ arg' = Float(score)
    /\ ret' = CategoryDict(_get_match_category(score))
    /\ frame' = NoFrame
    /\ UNCHANGED <<tenant_input, tenant_data, today>>

\* _normalize_name(name)
NormalizeName(name) ==
    /\ op = "idle"
    /\ op' = "_normalize_name"
    /\ arg' = name
    /\ ret' = _normalize_name(name)
    /\ frame' = NoFrame
    /\ UNCHANGED <<tenant_input, tenant_data, today>>

\* _calculate_name_similarity(tenant_name, match_name)
CalculateNameSimilarity(tenant_name, match_name) ==
    /\ op = "idle"
    /\ op' = "_calculate_name_similarity"
    /\ arg' = List(<<tenant_name, match_name>>)
    /\ ret' = _calculate_name_similarity(tenant_name, match_name)
    /\ frame' = NoFrame
    /\ UNCHANGED <<tenant_input, tenant_data, today>>

\* _compare_dates(date1, date2)
CompareDates(date1, date2) ==
    /\ op = "idle"
    /\ op' = "_compare_dates"
    /\ arg' = List(<<date1, date2>>)
    /\ ret' = _compare_dates(date1, date2)
    /\ frame' = NoFrame
    /\ UNCHANGED <<tenant_input, tenant_data, today>>

\* the caller takes the result; the evaluator is ready for the next call
Return ==
    /\ op # "idle"
    /\ op' = "idle"
    /\ arg' = None
    /\ ret' = None
    /\ frame' = NoFrame
    /\ UNCHANGED <<tenant_input, tenant_data, today>>

Next ==
    \/ \E match_data \in Candidates : EvaluateMatch(match_data)
    \/ \E matches \in Batches : EvaluateMatches(matches)
    \/ \E pipeline_data \in Pipelines : ExtractMatchesFromPipeline(pipeline_data)
    \/ \E pipeline_data \in Pipelines : EvaluatePipelineData(pipeline_data)
    \/ \E score \in Scores : GetMatchCategory(score)
    \/ \E name \in NameValues : NormalizeName(name)
    \/ \E tenant_name \in SimilarityNames, match_name \in SimilarityNames :
           CalculateNameSimilarity(tenant_name, match_name)
    \/ \E date1 \in DateValues, date2 \in DateValues : CompareDates(date1, date2)
    \/ Return

Spec == Init /\ [][Next]_vars

(***************************************************************************)
(* The properties.                                                         *)
(***************************************************************************)
\* the call that has returned is evaluate_match on a dict, and it returned
Evaluated == op = "evaluate_match" /\ frame.raised = ""

\* the attribute k is absent from the record d: no key, None, or ''
Absent(d, k) ==
    \/ ~Has(d, k)
    \/ d[k].t = "none"
    \/ d[k].t = "str" /\ d[k].v = <<>>

\* a non-empty dob string that none of the formats parses
Unparseable(v) == v.t = "str" /\ v.v # <<>> /\ ParseDob(v.v, 1).t = "none"

\* a dob that is supplied: a native datetime or date, or a string that one
\* of the formats parses
DobSupplied(v) ==
    \/ v.t \in {"datetime", "date"}
    \/ v.t = "str" /\ v.v # <<>> /\ ParseDob(v.v, 1).t = "datetime"

\* a str of the form YYYY-MM-DD
IsIsoDate(v) ==
    /\ v.t = "str"
    /\ Len(v.v) = 10
    /\ v.v[5] = "-" /\ v.v[8] = "-"
    /\ \A i \in {1, 2, 3, 4, 6, 7, 9, 10} : v.v[i] \in DigitSet

\* the record r carries all five scored attributes: a name with a letter
\* or a digit in it, and a value under each optional key, the dob one that
\* parses
HasAllFive(r) ==
    /\ \E k \in NameFieldSet :
           /\ ~Absent(r, k)
           /\ r[k].t = "str"
           /\ \E i \in 1..Len(r[k].v) : IsWordChar(r[k].v[i])
    /\ \A k \in OptionalKeys : ~Absent(r, k)
    /\ DobSupplied(r["dob"])

\* the effective weight and the score of the optional attribute k
WeightOf(f, k) ==
    CASE k = "dob" -> f.dob_weight
      [] k = "location" -> f.location_weight
      [] k = "nationality" -> f.nationality_weight
      [] k = "gender" -> f.gender_weight
ScoreOf(f, k) ==
    CASE k = "dob" -> f.dob_score
      [] k = "location" -> f.location_score
      [] k = "nationality" -> f.nationality_score
      [] k = "gender" -> f.gender_score

\* C1: a record with all five scored attributes, evaluated against an
\* evaluator built from an identical copy of it, gets relevance_score 1.0,
\* the category HIGH_RELEVANCE and no mismatch reason.
C1_SelfMatchIsPerfect ==
    (op = "evaluate_match" /\ arg = Dict(tenant_input) /\ HasAllFive(tenant_input)) =>
        /\ ~IsRaise(ret)
        /\ ret.v["relevance_score"] = Float(F1)
        /\ ret.v["match_category"] = Text("HIGH_RELEVANCE")
        /\ ret.v["mismatch_reasons"] = List(<<>>)

\* C2: whatever attributes the reference and the candidate carry, the
\* relevance_score that evaluate_match returns lies in [0, 1].
C2_RelevanceInUnitInterval ==
    Evaluated =>
        /\ FGe(ret.v["relevance_score"].v, F0)
        /\ FLe(ret.v["relevance_score"].v, F1)

\* C3: after renormalisation the effective weights sum to 1.0, an attribute
\* not present on both sides has weight 0, an included one has its base
\* weight divided by the total, and with only the name on both sides the
\* name weight is exactly 1.0.
C3_WeightsSumToOne ==
    Evaluated =>
        /\ FAdd(FAdd(FAdd(FAdd(frame.name_weight, frame.dob_weight),
                          frame.location_weight),
                     frame.nationality_weight),
                frame.gender_weight) = F1
        /\ frame.name_weight = FDiv(F0_5, frame.total_weight)
        /\ \A k \in OptionalKeys :
               IF k \in frame.included
               THEN WeightOf(frame, k)
                    = FDiv(IF k = "dob" THEN F0_2 ELSE F0_1, frame.total_weight)
               ELSE WeightOf(frame, k) = F0
        /\ frame.included = {} => frame.name_weight = F1

\* C4: a candidate dob string that no format parses is treated as absent:
\* evaluate_match does not raise, the dob weight is not in the total, and
\* the relevance_score is that of the same candidate without a dob.
C4_UnparseableDobIsAbsent ==
    (/\ op = "evaluate_match"
     /\ arg.t = "dict"
     /\ Has(arg.v, "dob")
     /\ Unparseable(arg.v["dob"])
     /\ ~IsRaise(evaluate_match(tenant_data, Dict(Without(arg.v, {"dob"})), today))) =>
        /\ ~IsRaise(ret)
        /\ "dob" \notin frame.included
        /\ frame.dob_weight = F0
        /\ ret.v["relevance_score"]
           = evaluate_match(tenant_data, Dict(Without(arg.v, {"dob"})),
                            today).v["relevance_score"]

\* C5: an optional attribute that is absent on the reference or on the
\* candidate (no key, null, or the empty string) has its weight excluded
\* from the renormalised total.
C5_AbsentAttributeExcluded ==
    Evaluated =>
        \A k \in OptionalKeys :
            (Absent(tenant_input, k) \/ Absent(arg.v, k)) =>
                /\ k \notin frame.included
                /\ WeightOf(frame, k) = F0

\* the rank of a category, and its label in the table
Rank(category) ==
    CASE category = "HIGH_RELEVANCE" -> 3
      [] category = "MEDIUM_RELEVANCE" -> 2
      [] category = "LOW_RELEVANCE" -> 1
      [] category = "NOT_RELEVANT" -> 0
LabelOf(category) ==
    CASE category = "HIGH_RELEVANCE" -> "Highly Relevant Match"
      [] category = "MEDIUM_RELEVANCE" -> "Potentially Relevant Match"
      [] category = "LOW_RELEVANCE" -> "Low Relevance Match"
      [] category = "NOT_RELEVANT" -> "Not Relevant"
InUnitInterval(score) == FGe(score, F0) /\ FLe(score, F1)

\* C6: on [0, 1] _get_match_category returns HIGH_RELEVANCE iff
\* score >= 0.8, MEDIUM_RELEVANCE iff 0.6 <= score < 0.8, LOW_RELEVANCE iff
\* 0.4 <= score < 0.6 and NOT_RELEVANT iff 0.0 <= score < 0.4, each with its
\* label, and no lower score gets a higher-ranked category.
C6_CategoryThresholds ==
    (op = "_get_match_category" /\ InUnitInterval(arg.v)) =>
        /\ ret.v["category"].v = "HIGH_RELEVANCE" <=> FGe(arg.v, F0_8)
        /\ ret.v["category"].v = "MEDIUM_RELEVANCE"
               <=> (FGe(arg.v, F0_6) /\ FLt(arg.v, F0_8))
        /\ ret.v["category"].v = "LOW_RELEVANCE"
               <=> (FGe(arg.v, F0_4) /\ FLt(arg.v, F0_6))
        /\ ret.v["category"].v = "NOT_RELEVANT"
               <=> (FGe(arg.v, F0) /\ FLt(arg.v, F0_4))
        /\ ret.v["label"].v = LabelOf(ret.v["category"].v)
        /\ ret.v["score"] = arg
        /\ \A below \in Scores :
               (InUnitInterval(below) /\ FLe(below, arg.v)) =>
                   Rank(_get_match_category(below).category)
                       <= Rank(ret.v["category"].v)

\* a score exactly on the HIGH threshold has been classified
C6_Witness ==
    /\ op = "_get_match_category"
    /\ arg.v = F0_8
    /\ ret.v["category"].v = "HIGH_RELEVANCE"

\* the sum of the values of a dict of ints
RECURSIVE SumCounts(_, _)
SumCounts(counts, keys) ==
    IF keys = {} THEN 0
    ELSE LET k == CHOOSE x \in keys : TRUE
         IN  counts[k].v + SumCounts(counts, keys \ {k})

\* C7: the match_counts that evaluate_pipeline_data returns has exactly the
\* four category keys, its values sum to the number of evaluated
\* candidates, which is the number extracted; for an empty pipeline
\* evaluated_matches is empty and the four counts are 0.
C7_MatchCounts ==
    (op = "evaluate_pipeline_data" /\ ~IsRaise(ret)) =>
        /\ DOMAIN ret.v["match_counts"].v
           = {"HIGH_RELEVANCE", "MEDIUM_RELEVANCE", "LOW_RELEVANCE", "NOT_RELEVANT"}
        /\ SumCounts(ret.v["match_counts"].v, DOMAIN ret.v["match_counts"].v)
           = Len(ret.v["evaluated_matches"].v)
        /\ Len(ret.v["evaluated_matches"].v) = Len(extract_matches_from_pipeline(arg).v)
        /\ (Has(arg.v, "pipeline") /\ arg.v["pipeline"].t = "list"
            /\ arg.v["pipeline"].v = <<>>) =>
               /\ ret.v["evaluated_matches"].v = <<>>
               /\ \A k \in DOMAIN ret.v["match_counts"].v :
                      ret.v["match_counts"].v[k].v = 0

\* a pipeline of three candidates has been counted into three categories
C7_Witness ==
    /\ op = "evaluate_pipeline_data"
    /\ ~IsRaise(ret)
    /\ Len(ret.v["evaluated_matches"].v) = 3
    /\ Cardinality({k \in DOMAIN ret.v["match_counts"].v :
                       ret.v["match_counts"].v[k].v = 1}) = 3

\* C8: evaluate_matches maps evaluate_match over its input in order: the
\* output has the length of the input and its i-th element is the
\* evaluation of the i-th candidate, carrying that candidate's id; it
\* raises exactly when the evaluation of one of the candidates does.
C8_OrderPreservingMap ==
    (op = "evaluate_matches") =>
        IF \E i \in 1..Len(arg.v) : IsRaise(evaluate_match(tenant_data, arg.v[i], today))
        THEN IsRaise(ret)
        ELSE /\ ret.t = "list"
             /\ Len(ret.v) = Len(arg.v)
             /\ \A i \in 1..Len(arg.v) :
                    /\ ret.v[i] = evaluate_match(tenant_data, arg.v[i], today)
                    /\ ret.v[i].v["id"] = arg.v[i].v["id"]

\* a list of two different candidates has been evaluated
C8_Witness ==
    /\ op = "evaluate_matches"
    /\ ret.t = "list"
    /\ Len(ret.v) = 2
    /\ ret.v[1].v["id"] # ret.v[2].v["id"]
    /\ ret.v[1].v["relevance_score"] # ret.v[2].v["relevance_score"]

\* C9: when the candidate's dob is supplied, as a native date value or as a
\* string in one of the accepted formats, the dob of the result is a string
\* of the form YYYY-MM-DD.
C9_DobSerialized ==
    (/\ op = "evaluate_match"
     /\ ~IsRaise(ret)
     /\ Has(arg.v, "dob")
     /\ DobSupplied(arg.v["dob"])) =>
        IsIsoDate(ret.v["dob"])

\* the value v is not one the attribute k is expected to hold
Unexpected(v, k) ==
    IF k = "dob" THEN v.t \notin {"none", "str", "datetime", "date"} \/ Unparseable(v)
    ELSE v.t \notin {"none", "str"}

\* C10: evaluate_match does not raise for a candidate whose scored
\* attributes are missing, null, empty, an unparseable date or of an
\* unexpected type: it returns a result, and an optional attribute that is
\* absent or malformed contributes zero to the relevance_score.
C10_NeverRaises ==
    (op = "evaluate_match" /\ arg.t = "dict") =>
        /\ ~IsRaise(ret)
        /\ \A k \in OptionalKeys :
               (Absent(arg.v, k) \/ Unexpected(arg.v[k], k)) =>
                   FMul(ScoreOf(frame, k), WeightOf(frame, k)) = F0

\* C11: the reference identity is normalized once, in the constructor, and
\* no call writes it: every step of evaluate_match, evaluate_matches,
\* extract_matches_from_pipeline and evaluate_pipeline_data leaves tenant_data
\* (its name_parts and dob included) as it was.
C11_TenantDataNeverWritten == [][tenant_data' = tenant_data]_vars

\* an evaluation has returned for a candidate whose name parts are not the
\* evaluator's, on an evaluator that holds name parts and a parsed dob
C11_Witness ==
    /\ op = "evaluate_match"
    /\ frame.raised = ""
    /\ Has(tenant_data, "dob") /\ tenant_data["dob"].t = "datetime"
    /\ tenant_data["name_parts"].v # {}
    /\ ~(frame.normalized_match["name_parts"].v \subseteq tenant_data["name_parts"].v)
    /\ tenant_data = _normalize_tenant_data(tenant_input, today).v

\* C12: evaluate_match does not mutate the candidate record it is given:
\* after the call the caller's mapping has the keys and the values it was
\* passed with; the normalized names, name_parts, age, parsed dob and the
\* evaluation fields are written to copies only.
C12_CandidateNotMutated ==
    Evaluated =>
        /\ frame.match_data = arg
        /\ \A k \in DOMAIN frame.match_data.v :
               k \in DOMAIN arg.v /\ frame.match_data.v[k] = arg.v[k]
        /\ \A k \in DOMAIN arg.v : k \in DOMAIN frame.match_data.v

\* an evaluation has returned whose normalization lower-cased a name, added
\* name_parts and age and parsed a dob string, and whose result carries the
\* evaluation fields, for a candidate that had none of them
C12_Witness ==
    /\ Evaluated
    /\ Has(arg.v, "first_name") /\ Has(arg.v, "dob")
    /\ arg.v["dob"].t = "str"
    /\ frame.normalized_match["dob"].t = "datetime"
    /\ frame.normalized_match["first_name"] # arg.v["first_name"]
    /\ Has(frame.normalized_match, "age")
    /\ frame.normalized_match["name_parts"].v # {}
    /\ Has(frame.result.v, "relevance_score")
    /\ DOMAIN arg.v \cap {"name_parts", "age", "relevance_score", "match_category",
                          "match_label", "match_reasons", "mismatch_reasons"} = {}

\* the five evaluation fields of a result
Verdict(r) ==
    [k \in {"relevance_score", "match_category", "match_label", "match_reasons",
            "mismatch_reasons"} |-> r.v[k]]

\* the evaluation fields a new evaluator of the same reference identity
\* gives the candidate, evaluated alone
AloneVerdict(candidate) ==
    Verdict(evaluate_match(_normalize_tenant_data(tenant_input, today).v, candidate, today))

\* C13: the evaluations on one evaluator are independent: the
\* relevance_score, match_category, match_label, match_reasons and
\* mismatch_reasons returned for a candidate are those the reference identity
\* and that candidate alone determine, whatever was evaluated before it and
\* whatever else is in its batch.
C13_EvaluationsIndependent ==
    /\ (op = "evaluate_match" /\ ~IsRaise(ret)) => Verdict(ret) = AloneVerdict(arg)
    /\ (op = "evaluate_matches" /\ ~IsRaise(ret)) =>
           \A i \in 1..Len(arg.v) : Verdict(ret.v[i]) = AloneVerdict(arg.v[i])

\* a batch has been evaluated whose second candidate scores differently
\* against the first candidate than against the reference identity
C13_Witness ==
    /\ op = "evaluate_matches"
    /\ ~IsRaise(ret)
    /\ Len(ret.v) = 2
    /\ arg.v[1] # arg.v[2]
    /\ ret.v[2].v["match_category"] = Text("HIGH_RELEVANCE")
    /\ ret.v[1].v["match_category"] = Text("NOT_RELEVANT")

\* a step mapping whose results, if it has any, is a list
WellFormedStep(step) ==
    /\ step.t = "dict"
    /\ Has(step.v, "results") => step.v["results"].t = "list"

\* the results list of a step of type 'refinitiv-blacklist', nothing for a
\* step of another type, without a type or without results
ResultsOf(step) ==
    IF /\ Has(step.v, "type")
       /\ step.v["type"] = Text("refinitiv-blacklist")
       /\ Has(step.v, "results")
    THEN step.v["results"].v
    ELSE <<>>

\* the results of the steps, concatenated in the order of the steps
RECURSIVE ConcatResults(_)
ConcatResults(steps) ==
    IF steps = <<>> THEN <<>>
    ELSE ConcatResults(SubSeq(steps, 1, Len(steps) - 1)) \o ResultsOf(steps[Len(steps)])

\* C14: extract_matches_from_pipeline returns exactly the concatenation of
\* the results lists of the steps of type 'refinitiv-blacklist', in encounter
\* order and with duplicates, skipping every other step, for a pipeline that
\* is a list of steps and for one that is a single step object.
C14_ExtractConcatenates ==
    (op = "extract_matches_from_pipeline" /\ arg.t = "dict" /\ Has(arg.v, "pipeline")) =>
        /\ (/\ arg.v["pipeline"].t = "list"
            /\ \A i \in 1..Len(arg.v["pipeline"].v) :
                   WellFormedStep(arg.v["pipeline"].v[i])) =>
               ret = List(ConcatResults(arg.v["pipeline"].v))
        /\ WellFormedStep(arg.v["pipeline"]) =>
               ret = List(ResultsOf(arg.v["pipeline"]))

\* a list of two blacklist steps has been extracted, the later step's
\* candidate after the two of the earlier step
C14_Witness ==
    /\ op = "extract_matches_from_pipeline"
    /\ arg.t = "dict"
    /\ Has(arg.v, "pipeline")
    /\ arg.v["pipeline"].t = "list"
    /\ Len(arg.v["pipeline"].v) = 2
    /\ ret = List(<<Dict(partial_match_data), Dict(non_match_data), Dict(exact_match_data)>>)

\* the results of a step, nothing for a step that is malformed
SoundResultsOf(step) == IF WellFormedStep(step) THEN ResultsOf(step) ELSE <<>>

\* the results of the well-formed steps, in the order of the steps
RECURSIVE ConcatSoundResults(_)
ConcatSoundResults(steps) ==
    IF steps = <<>> THEN <<>>
    ELSE ConcatSoundResults(SubSeq(steps, 1, Len(steps) - 1))
         \o SoundResultsOf(steps[Len(steps)])

\* C15: for an absent or malformed container shape (no pipeline key, a
\* pipeline that is neither a list nor a step object, a list element that is
\* no step mapping, a matching step whose results is missing or no list)
\* extract_matches_from_pipeline does not raise: it returns the empty list,
\* or the results of the well-formed steps with the malformed part skipped.
C15_MalformedNeverRaises ==
    (op = "extract_matches_from_pipeline" /\ arg.t = "dict") =>
        /\ ~IsRaise(ret)
        /\ ~Has(arg.v, "pipeline") => ret = List(<<>>)
        /\ (Has(arg.v, "pipeline") /\ arg.v["pipeline"].t \notin {"list", "dict"}) =>
               ret = List(<<>>)
        /\ (Has(arg.v, "pipeline") /\ arg.v["pipeline"].t = "list") =>
               ret = List(ConcatSoundResults(arg.v["pipeline"].v))
        /\ (Has(arg.v, "pipeline") /\ arg.v["pipeline"].t = "dict") =>
               ret = List(SoundResultsOf(arg.v["pipeline"]))

\* the similarity of the normalized names the reference and the candidate
\* carry under k, 0 when one of them does not carry k
NameSimilarityOf(k) ==
    IF Has(tenant_input, k) /\ Has(arg.v, k)
    THEN _calculate_name_similarity(_normalize_name(tenant_input[k]),
                                    _normalize_name(arg.v[k])).v
    ELSE F0

\* the tokens of the normalized names of a record
NameTokensOf(r) ==
    UNION {Tokens(_normalize_name(r[k]).v) :
             k \in {x \in NameFieldSet \cap DOMAIN r : Truthy(r[x])}}

\* |intersection| / max(|tenant_parts|, |candidate_parts|), 0 when a side has
\* no parts
NamePartsOverlap(tenant_parts, candidate_parts) ==
    IF tenant_parts = {} \/ candidate_parts = {} THEN F0
    ELSE FRatio(Cardinality(tenant_parts \cap candidate_parts),
                IF Cardinality(tenant_parts) >= Cardinality(candidate_parts)
                THEN Cardinality(tenant_parts) ELSE Cardinality(candidate_parts))

\* the best of the first-name similarity, the last-name similarity and the
\* name parts overlap
BestSubScore ==
    FMax(FMax(NameSimilarityOf("first_name"), NameSimilarityOf("last_name")),
         NamePartsOverlap(NameTokensOf(tenant_input), NameTokensOf(arg.v)))

\* C16: the name score of evaluate_match follows the priority rule: when the
\* reference and the candidate both carry a full_name it is the similarity
\* of the two full names and nothing else; otherwise it is the maximum of the
\* first_name similarity, the last_name similarity and the name_parts overlap
\* |intersection| / max(|tenant_parts|, |candidate_parts|), a sub-score that
\* cannot be computed counting as 0.
C16_NamePriority ==
    Evaluated =>
        IF ~Absent(tenant_input, "full_name") /\ ~Absent(arg.v, "full_name")
        THEN frame.name_score = NameSimilarityOf("full_name")
        ELSE frame.name_score = BestSubScore

\* C17: for two present date values, those with a time of day included,
\* _compare_dates returns 1.0 exactly when year, month and day are equal,
\* 0.5 when only the years are, and 0.0 when the years differ; it returns
\* 0.0 when one of the dates is absent.
C17_CompareDates ==
    (op = "_compare_dates") =>
        IF arg.v[1].t = "none" \/ arg.v[2].t = "none" THEN ret = Float(F0)
        ELSE IF /\ arg.v[1].y = arg.v[2].y
                /\ arg.v[1].m = arg.v[2].m
                /\ arg.v[1].d = arg.v[2].d THEN ret = Float(F1)
        ELSE IF arg.v[1].y = arg.v[2].y THEN ret = Float(F0_5)
        ELSE ret = Float(F0)

\* a letter or a digit
IsAlphanumeric(c) == c \in UpperSet \/ c \in LowerSet \/ c \in DigitSet
\* a character that stays: alphanumeric or whitespace
Stays(c) == IsAlphanumeric(c) \/ IsSpace(c)

\* C18: _normalize_name removes every character that is not alphanumeric or
\* whitespace (apostrophe, hyphen and underscore are deleted, no space is
\* put in their place) and lower-cases the rest; an empty or null name gives
\* the empty string.
C18_NormalizeName ==
    (op = "_normalize_name") =>
        IF arg.t = "none" THEN ret = Str(<<>>)
        ELSE ret = Str(lower(SelectSeq(arg.v, Stays)))

\* the record r has a dob that can be compared: a native date, or a string
\* that one of the formats parses
ComparableDob(r) == Has(r, "dob") /\ DobSupplied(r["dob"])

\* the texts of the reasons of a list
TextsOf(reasons) == {reasons.v[i].text : i \in 1..Len(reasons.v)}

DobReasonTexts ==
    {"Date of birth matches exactly", "Date of birth partially matches",
     "Date of birth does not match"}

\* C19: the date-of-birth reasons of evaluate_match: a dob score of 1.0 adds
\* the exact-match reason, a dob score of 0.5 the partial-match reason, and
\* 'Date of birth does not match' is added only when the reference and the
\* candidate both had a comparable dob; a dob that is missing, null or
\* unparseable on either side adds no dob reason at all.
C19_DobReasons ==
    Evaluated =>
        /\ frame.dob_score = F1 =>
               "Date of birth matches exactly" \in TextsOf(ret.v["match_reasons"])
        /\ frame.dob_score = F0_5 =>
               "Date of birth partially matches" \in TextsOf(ret.v["match_reasons"])
        /\ "Date of birth does not match" \in TextsOf(ret.v["mismatch_reasons"]) =>
               ComparableDob(tenant_input) /\ ComparableDob(arg.v)
        /\ (~ComparableDob(tenant_input) \/ ~ComparableDob(arg.v)) =>
               (TextsOf(ret.v["match_reasons"]) \cup TextsOf(ret.v["mismatch_reasons"]))
                   \cap DobReasonTexts = {}

\* the tokens of the normalized name
TokensOfName(name) == Tokens(_normalize_name(name).v)

\* |tokens(a) /\ tokens(b)| / |tokens(a)|, 0 when a has no token
TokenOverlap(a, b) ==
    IF TokensOfName(a) = {} THEN F0
    ELSE FRatio(Cardinality(TokensOfName(a) \cap TokensOfName(b)),
                Cardinality(TokensOfName(a)))

\* C20: _calculate_name_similarity returns the maximum of the sequence ratio,
\* the Jaro-Winkler similarity and the token overlap
\* |tokens(a) /\ tokens(b)| / |tokens(a)| of the normalized names, the overlap
\* divided by the token count of the first argument only; so it is 1.0
\* whenever every token of the first name is in the second, and it is 0.0
\* whenever one of the names is absent or empty.
C20_NameSimilarity ==
    (op = "_calculate_name_similarity") =>
        IF \E i \in {1, 2} : arg.v[i].t = "none" \/ arg.v[i].v = <<>>
        THEN ret = Float(F0)
        ELSE /\ ret = Float(FMax(FMax(SequenceMatcherRatio(_normalize_name(arg.v[1]).v,
                                                           _normalize_name(arg.v[2]).v),
                                      jaro_winkler_similarity(_normalize_name(arg.v[1]).v,
                                                              _normalize_name(arg.v[2]).v)),
                                 TokenOverlap(arg.v[1], arg.v[2])))
             /\ (/\ TokensOfName(arg.v[1]) # {}
                 /\ TokensOfName(arg.v[1]) \subseteq TokensOfName(arg.v[2])) =>
                    ret = Float(F1)

\* the similarity of a one-token name to a two-token name that holds its
\* token has been computed, and is 1.0
C20_Witness ==
    /\ op = "_calculate_name_similarity"
    /\ arg = List(<<Str(sJohn), Str(sJohnDoe)>>)
    /\ ret = Float(F1)

\* the local variables of evaluate_match at its return, for the candidate of
\* the call with the key k removed from it
WithoutAttribute(k) ==
    evaluate_match_frame(tenant_data, Dict(Without(arg.v, {k})), today)

\* an attribute other than k has a score above 0 in the frame f
OtherScores(f, k) ==
    \/ FGt(f.name_score, F0)
    \/ \E j \in OptionalKeys \ {k} : FGt(ScoreOf(f, j), F0)

\* C21: absence never scores worse than mismatch: when dob, location,
\* nationality or gender is held by the reference and by the candidate and
\* its comparison scores 0, the same candidate without that attribute is
\* evaluated to a relevance_score at least as large, and to a strictly larger
\* one when any other attribute scores above 0.
C21_AbsenceNotWorseThanMismatch ==
    Evaluated =>
        \A k \in frame.included :
            ScoreOf(frame, k) = F0 =>
                \A removed \in {WithoutAttribute(k)} :
                    /\ removed.raised = ""
                    /\ k \notin removed.included
                    /\ FGe(removed.relevance_score, frame.relevance_score)
                    /\ OtherScores(frame, k) =>
                           FGt(removed.relevance_score, frame.relevance_score)

\* the partial candidate of the test suite has been evaluated against its
\* reference: the nationalities differ and score 0 with an effective weight
\* of 0.1, the name scores above 0, and without the nationality the
\* relevance_score is strictly larger
C21_Witness ==
    /\ Evaluated
    /\ tenant_input = fixture_tenant_data
    /\ arg = Dict(partial_match_data)
    /\ "nationality" \in frame.included
    /\ frame.nationality_score = F0
    /\ FGt(frame.nationality_weight, F0)
    /\ FGt(frame.name_score, F0)
    /\ FGt(WithoutAttribute("nationality").relevance_score, frame.relevance_score)

=============================================================================
